---- MODULE Spec2Model ----
(***************************************************************************)
(* A model of the schema-migration library: the schema comparer             *)
(* (schemaComparer.ts), the SQL generator and the migration writer          *)
(* (migrationGenerator.ts).                                                  *)
(*                                                                           *)
(* Text is kept as a sequence of lexemes: a field type "String?" is          *)
(* <<"String", "?">>, an attribute "@default(now())" is                      *)
(* <<"@default", "(now())">>.  String.includes(marker) is then a test for   *)
(* the marker lexeme, and string order is the lexicographic order of the     *)
(* lexemes.  SQL text is a sequence of tokens in which a line break is the   *)
(* token NL, so a blank line is two NL tokens in a row.                      *)
(***************************************************************************)
EXTENDS Integers, Sequences, FiniteSets, TLC

VARIABLES
    pc,             \* position of the operation under way
    oldSchema,      \* compareSchemas: first argument
    newSchema,      \* compareSchemas: second argument
    changes,        \* compareSchemas: result; generateMigration: first argument
    upStatements,   \* generateMigration: local array
    downStatements, \* generateMigration: local array
    upSql,          \* generateMigration: composed up script
    downSql,        \* generateMigration: composed down script
    migrationName,  \* generateMigration: third argument
    migration,      \* generateMigration: the Migration object
    ret,            \* generateMigration: what the call returned
    fs,             \* the migrations directory on disk
    clock,          \* the wall clock, in seconds
    calls,          \* number of calls of generateMigration so far
    returned,       \* the migrations generateMigration has returned, in order
    schemaFile,     \* the text of schema.prisma, or Unreadable
    previousSchema, \* MigrationManager.previousSchema
    isInitialized,  \* MigrationManager.isInitialized
    watcher,        \* MigrationManager.watcher
    watchers,       \* the chokidar watchers of the process that are not closed
    pending,        \* the watchers with a change notification not yet delivered
    runs,           \* the executions of handleSchemaChange, in order of start
    answer,         \* what the last awaited call on the manager returned
    listing,        \* getMigrations: the order in which fs.readdir lists the entries
    listed,         \* getMigrations: what the call returned
    backup          \* the text of prisma/.schema.prisma.backup, or Unreadable

diffVars == <<oldSchema, newSchema>>

sqlVars == <<upStatements, downStatements, upSql, downSql>>

genVars == <<migrationName, migration, ret, fs, clock, calls, returned>>

mgrVars ==
    <<schemaFile, previousSchema, isInitialized, watcher, watchers, pending, runs, answer>>

listVars == <<listing, listed>>

vars == <<pc, diffVars, changes, sqlVars, genVars, mgrVars, listVars, backup>>

(***************************************************************************)
(* Bounds                                                                    *)
(***************************************************************************)
MaxModels == 2
MaxAttrs == 2
MaxChanges == 2
MaxCalls == 2
MaxClock == 1
MaxRuns == 2
MaxWatchers == 2
MaxEntries == 3

(***************************************************************************)
(* Helpers on sequences                                                      *)
(***************************************************************************)
Range(s) == {s[i] : i \in DOMAIN s}

SeqsUpTo(S, n) == UNION {[1..k -> S] : k \in 0..n}

\* items.map((x) => x.name)
Names(items) == [i \in DOMAIN items |-> items[i].name]

\* items.find((x) => x.name === name): the first item of that name
FindNamed(items, name) ==
    items[CHOOSE i \in DOMAIN items :
            items[i].name = name /\ \A j \in 1..(i - 1) : items[j].name # name]

\* new Set(array), in its iteration order: insertion order, first occurrence kept
RECURSIVE SetOf(_)
SetOf(s) ==
    IF s = <<>> THEN <<>>
    ELSE LET init == SetOf(SubSeq(s, 1, Len(s) - 1))
             last == s[Len(s)]
         IN IF last \in Range(init) THEN init ELSE Append(init, last)

\* array.flat() of a sequence of sequences
RECURSIVE Flatten(_)
Flatten(ss) == IF ss = <<>> THEN <<>> ELSE Head(ss) \o Flatten(Tail(ss))

(***************************************************************************)
(* String order (the default comparator of Array.prototype.sort)             *)
(***************************************************************************)
\* the lexemes of the model in ascending UTF-16 code unit order
LexemeOrder ==
    <<"(\"?\")", "(now())", "?", "@default", "@id", "@map", "@unique",
      "Int", "Post", "String", "array">>

LexemeRank(l) == CHOOSE i \in DOMAIN LexemeOrder : LexemeOrder[i] = l

RECURSIVE StrLess(_, _)
StrLess(a, b) ==
    IF b = <<>> THEN FALSE
    ELSE IF a = <<>> THEN TRUE
    ELSE IF Head(a) = Head(b) THEN StrLess(Tail(a), Tail(b))
    ELSE LexemeRank(Head(a)) < LexemeRank(Head(b))

RECURSIVE InsertSorted(_, _)
InsertSorted(x, s) ==
    IF s = <<>> THEN <<x>>
    ELSE IF StrLess(Head(s), x) THEN <<Head(s)>> \o InsertSorted(x, Tail(s))
    ELSE <<x>> \o s

\* [...a].sort()
RECURSIVE Sort(_)
Sort(a) == IF a = <<>> THEN <<>> ELSE InsertSorted(Head(a), Sort(Tail(a)))

(***************************************************************************)
(* schemaParser.ts: the data model                                           *)
(***************************************************************************)
ModelField(n, t, m, a) == [name |-> n, type |-> t, modifiers |-> m, attributes |-> a]

Model(n, fields) == [name |-> n, fields |-> fields]

\* an absent optional property of a SchemaChange
Undefined == [undefined |-> TRUE]

NoField == "undefined"

(***************************************************************************)
(* schemaComparer.ts                                                         *)
(***************************************************************************)
SchemaChange(t, m, f, o, n) ==
    [type |-> t, model |-> m, field |-> f, oldValue |-> o, newValue |-> n]

\* the arrays are compared without being sorted
arraysEqualUnsorted(a, b) ==
    IF Len(a) # Len(b) THEN FALSE
    ELSE \A idx \in DOMAIN a : a[idx] = b[idx]

\* only the first array is sorted
arraysEqualOneSided(a, b) ==
    IF Len(a) # Len(b) THEN FALSE
    ELSE LET sortedA == Sort(a)
         IN \A idx \in DOMAIN sortedA : sortedA[idx] = b[idx]

arraysEqual(a, b) ==
    IF Len(a) # Len(b) THEN FALSE
    ELSE LET sortedA == Sort(a)
             sortedB == Sort(b)
         IN \A idx \in DOMAIN sortedA : sortedA[idx] = sortedB[idx]

FieldNamed(model, fieldName) == FindNamed(model.fields, fieldName)

ModelNamed(schema, modelName) == FindNamed(schema, modelName)

CreatedFields(oldModel, newModel) ==
    LET oldFieldNames == SetOf(Names(oldModel.fields))
        newFieldNames == SetOf(Names(newModel.fields))
        created == SelectSeq(newFieldNames, LAMBDA n : n \notin Range(oldFieldNames))
    IN [i \in DOMAIN created |->
            SchemaChange("CREATE_FIELD", newModel.name, created[i], Undefined,
                         FieldNamed(newModel, created[i]))]

\* the loop runs over the new field names
DeletedFieldsOverNew(oldModel, newModel) ==
    LET newFieldNames == SetOf(Names(newModel.fields))
        deleted == SelectSeq(newFieldNames, LAMBDA n : n \notin Range(newFieldNames))
    IN [i \in DOMAIN deleted |->
            SchemaChange("DELETE_FIELD", oldModel.name, deleted[i], Undefined, Undefined)]

DeletedFields(oldModel, newModel) ==
    LET oldFieldNames == SetOf(Names(oldModel.fields))
        newFieldNames == SetOf(Names(newModel.fields))
        deleted == SelectSeq(oldFieldNames, LAMBDA n : n \notin Range(newFieldNames))
    IN [i \in DOMAIN deleted |->
            SchemaChange("DELETE_FIELD", oldModel.name, deleted[i], Undefined, Undefined)]

FieldModified(oldField, newField) ==
    \/ oldField.type # newField.type
    \/ ~arraysEqual(oldField.modifiers, newField.modifiers)
    \/ ~arraysEqual(oldField.attributes, newField.attributes)

ModifiedFields(oldModel, newModel) ==
    LET oldFieldNames == SetOf(Names(oldModel.fields))
        newFieldNames == SetOf(Names(newModel.fields))
        modified == SelectSeq(oldFieldNames,
                        LAMBDA n : /\ n \in Range(newFieldNames)
                                   /\ FieldModified(FieldNamed(oldModel, n),
                                                    FieldNamed(newModel, n)))
    IN [i \in DOMAIN modified |->
            SchemaChange("ALTER_FIELD", oldModel.name, modified[i],
                         FieldNamed(oldModel, modified[i]), FieldNamed(newModel, modified[i]))]

\* the modified fields are looked for first
compareModelFieldsAlterFirst(oldModel, newModel) ==
    ModifiedFields(oldModel, newModel)
        \o CreatedFields(oldModel, newModel)
        \o DeletedFields(oldModel, newModel)

compareModelFields(oldModel, newModel) ==
    CreatedFields(oldModel, newModel)
        \o DeletedFields(oldModel, newModel)
        \o ModifiedFields(oldModel, newModel)

CreatedModels(old, new) ==
    LET oldModelNames == SetOf(Names(old))
        newModelNames == SetOf(Names(new))
        created == SelectSeq(newModelNames, LAMBDA n : n \notin Range(oldModelNames))
    IN [i \in DOMAIN created |->
            SchemaChange("CREATE_MODEL", created[i], NoField, Undefined,
                         ModelNamed(new, created[i]))]

\* the loop runs over the new model names
DeletedModelsOverNew(old, new) ==
    LET newModelNames == SetOf(Names(new))
        deleted == SelectSeq(newModelNames, LAMBDA n : n \notin Range(newModelNames))
    IN [i \in DOMAIN deleted |->
            SchemaChange("DELETE_MODEL", deleted[i], NoField, Undefined, Undefined)]

DeletedModels(old, new) ==
    LET oldModelNames == SetOf(Names(old))
        newModelNames == SetOf(Names(new))
        deleted == SelectSeq(oldModelNames, LAMBDA n : n \notin Range(newModelNames))
    IN [i \in DOMAIN deleted |->
            SchemaChange("DELETE_MODEL", deleted[i], NoField, Undefined, Undefined)]

ModifiedModels(old, new) ==
    LET oldModelNames == SetOf(Names(old))
        newModelNames == SetOf(Names(new))
        kept == SelectSeq(oldModelNames, LAMBDA n : n \in Range(newModelNames))
    IN Flatten([i \in DOMAIN kept |->
                    compareModelFields(ModelNamed(old, kept[i]), ModelNamed(new, kept[i]))])

\* a schema is the sequence ParsedSchema.models
compareSchemas(old, new) ==
    CreatedModels(old, new) \o DeletedModels(old, new) \o ModifiedModels(old, new)

(***************************************************************************)
(* migrationGenerator.ts: SQL generation                                     *)
(***************************************************************************)
\* a line break
NL == "\n"

typeMap ==
    (<<"String">> :> "TEXT") @@ (<<"Int">> :> "INTEGER") @@ (<<"Float">> :> "REAL")
        @@ (<<"Boolean">> :> "BOOLEAN") @@ (<<"DateTime">> :> "TIMESTAMP")
        @@ (<<"Json">> :> "JSONB")

\* typeMap[field.type] || "TEXT"
SqlType(type) == IF type \in DOMAIN typeMap THEN typeMap[type] ELSE "TEXT"

\* String.prototype.toLowerCase on the names of the model
LowerCased == ("User" :> "user") @@ ("Post" :> "post")

toLowerCase(name) == IF name \in DOMAIN LowerCased THEN LowerCased[name] ELSE name

\* attr.includes(marker)
Includes(attr, marker) == marker \in Range(attr)

\* array.join(separator) on token sequences
RECURSIVE Join(_, _)
Join(parts, separator) ==
    IF parts = <<>> THEN <<>>
    ELSE IF Len(parts) = 1 THEN Head(parts)
    ELSE Head(parts) \o separator \o Join(Tail(parts), separator)

\* the loop over field.attributes that fills constraints
RECURSIVE Constraints(_)
Constraints(attributes) ==
    IF attributes = <<>> THEN <<>>
    ELSE LET attr == Head(attributes)
         IN (IF Includes(attr, "@id") THEN <<"PRIMARY KEY">> ELSE <<>>)
                \o (IF Includes(attr, "@unique") THEN <<"UNIQUE">> ELSE <<>>)
                \o (IF ~Includes(attr, "?") /\ ~Includes(attr, "@default")
                        THEN <<"NOT NULL">> ELSE <<>>)
                \o Constraints(Tail(attributes))

\* `  ${field.name} ${sqlType} ${constraints.join(" ")}`
ColumnDefinition(field) ==
    <<field.name, SqlType(field.type)>> \o Constraints(field.attributes)

\* the table keeps the case of the model name
generateCreateTableSqlKeepCase(change) ==
    LET model == change.newValue
        tableName == model.name
        columnDefinitions ==
            Join([i \in DOMAIN model.fields |-> ColumnDefinition(model.fields[i])],
                 <<",", NL>>)
    IN [createTableSql |->
            <<"CREATE TABLE", tableName, "(", NL>> \o columnDefinitions \o <<NL, ");">>,
        dropTableSql |-> <<"DROP TABLE IF EXISTS", tableName, ";">>]

generateCreateTableSql(change) ==
    LET model == change.newValue
        tableName == toLowerCase(model.name)
        columnDefinitions ==
            Join([i \in DOMAIN model.fields |-> ColumnDefinition(model.fields[i])],
                 <<",", NL>>)
    IN [createTableSql |->
            <<"CREATE TABLE", tableName, "(", NL>> \o columnDefinitions \o <<NL, ");">>,
        dropTableSql |-> <<"DROP TABLE IF EXISTS", tableName, ";">>]

generateDropTableSql(change) ==
    LET tableName == toLowerCase(change.model)
    IN [dropTableSqlReverse |-> <<"DROP TABLE IF EXISTS", tableName, ";">>,
        createTableSqlReverse |->
            <<"-- To properly reverse this migration, you need to recreate the table with its original structure",
              NL, "-- CREATE TABLE", tableName, "(...);">>]

generateAddColumnSql(change) ==
    LET tableName == toLowerCase(change.model)
        field == change.newValue
        sqlType == SqlType(field.type)
        constraints == Constraints(field.attributes)
    IN [addColumnSql |->
            <<"ALTER TABLE", tableName, "ADD COLUMN", field.name, sqlType>>
                \o constraints \o <<";">>,
        dropColumnSql |-> <<"ALTER TABLE", tableName, "DROP COLUMN", field.name, ";">>]

generateDropColumnSql(change) ==
    LET tableName == toLowerCase(change.model)
        fieldName == change.field
    IN [dropColumnSqlReverse |-> <<"ALTER TABLE", tableName, "DROP COLUMN", fieldName, ";">>,
        addColumnSqlReverse |->
            <<"-- To properly reverse this migration, you need to add the column back with its original definition",
              NL, "-- ALTER TABLE", tableName, "ADD COLUMN", fieldName, "...;">>]

generateAlterColumnSql(change) ==
    LET tableName == toLowerCase(change.model)
        oldField == change.oldValue
        newField == change.newValue
        oldSqlType == SqlType(oldField.type)
        newSqlType == SqlType(newField.type)
    IN [alterColumnSql |->
            <<"ALTER TABLE", tableName, "ALTER COLUMN", newField.name, "TYPE", newSqlType, ";",
              NL, "-- Additional constraints may need to be modified separately">>,
        revertColumnSql |->
            <<"ALTER TABLE", tableName, "ALTER COLUMN", oldField.name, "TYPE", oldSqlType, ";",
              NL, "-- Additional constraints may need to be modified separately">>]

\* the switch on change.type: what one change pushes on upStatements
UpPushed(change) ==
    CASE change.type = "CREATE_MODEL" -> <<generateCreateTableSql(change).createTableSql>>
      [] change.type = "DELETE_MODEL" -> <<generateDropTableSql(change).dropTableSqlReverse>>
      [] change.type = "CREATE_FIELD" -> <<generateAddColumnSql(change).addColumnSql>>
      [] change.type = "DELETE_FIELD" -> <<generateDropColumnSql(change).dropColumnSqlReverse>>
      [] change.type = "ALTER_FIELD" -> <<generateAlterColumnSql(change).alterColumnSql>>
      [] OTHER -> <<>>

\* the switch on change.type: what one change pushes on downStatements
DownPushed(change) ==
    CASE change.type = "CREATE_MODEL" -> <<generateCreateTableSql(change).dropTableSql>>
      [] change.type = "DELETE_MODEL" -> <<generateDropTableSql(change).createTableSqlReverse>>
      [] change.type = "CREATE_FIELD" -> <<generateAddColumnSql(change).dropColumnSql>>
      [] change.type = "DELETE_FIELD" -> <<generateDropColumnSql(change).addColumnSqlReverse>>
      [] change.type = "ALTER_FIELD" -> <<generateAlterColumnSql(change).revertColumnSql>>
      [] OTHER -> <<>>

\* the loop over the changes: upStatements when it ends
RECURSIVE UpStatements(_)
UpStatements(cs) ==
    IF cs = <<>> THEN <<>> ELSE UpPushed(Head(cs)) \o UpStatements(Tail(cs))

\* the down statements are pushed at the front
RECURSIVE DownStatementsReversed(_)
DownStatementsReversed(cs) ==
    IF cs = <<>> THEN <<>> ELSE DownStatementsReversed(Tail(cs)) \o DownPushed(Head(cs))

\* the loop over the changes: downStatements when it ends
RECURSIVE DownStatements(_)
DownStatements(cs) ==
    IF cs = <<>> THEN <<>> ELSE DownPushed(Head(cs)) \o DownStatements(Tail(cs))

\* statements.join("\n\n")
JoinStatements(statements) == Join(statements, <<NL, NL>>)

(***************************************************************************)
(* migrationGenerator.ts: generateMigration and saveMigrationFiles           *)
(***************************************************************************)
\* the return value null
Null == [null |-> TRUE]

\* no call has returned yet
NoResult == [pending |-> TRUE]

\* the call rejected: an exception reached the caller
Thrown == [thrown |-> TRUE]

\* no Migration object has been built
NoMigration == [none |-> TRUE]

\* an absent or empty migrationName
NoName == <<>>

\* new Date().toISOString().replace(/[^\d]/g, "").slice(0, 14) at each second
\* of the clock: fourteen digits, so text order is time order
TimestampText ==
    <<"20250504123456", "20250504123457", "20250504123458", "20250504123459">>

Timestamp(now) == TimestampText[now + 1]

\* `${timestamp}${migrationName ? `_${migrationName}` : ""}`
MigrationId(timestamp, name) ==
    <<timestamp>> \o (IF name # NoName THEN <<"_">> \o name ELSE <<>>)

\* migrationName || `migration_${timestamp}`
MigrationNameOf(timestamp, name) ==
    IF name # NoName THEN name ELSE <<"migration_", timestamp>>

\* a directory without files
EmptyDir == [file \in {} |-> <<>>]

\* the migrations directory before any operation
GenIdle ==
    /\ migrationName = NoName
    /\ migration = NoMigration
    /\ ret = NoResult
    /\ fs = [root |-> TRUE, dirs |-> EmptyDir, files |-> EmptyDir]
    /\ clock = 0
    /\ calls = 0
    /\ returned = <<>>

\* the schema file is missing or cannot be read: fs.readFile rejects
Unreadable == [unreadable |-> TRUE]

\* the manager has not been constructed
MgrIdle ==
    /\ schemaFile = Unreadable
    /\ previousSchema = Null
    /\ isInitialized = FALSE
    /\ watcher = Null
    /\ watchers = {}
    /\ pending = {}
    /\ runs = <<>>
    /\ answer = NoResult

\* getMigrations has not been called
ListIdle ==
    /\ listing = <<>>
    /\ listed = NoResult

\* fs.writeFile / fs.writeJson: the file is created or replaced
WriteFile(disk, id, file, content) ==
    [disk EXCEPT !.dirs[id] = (file :> content) @@ disk.dirs[id]]

\* a migration.json that is not valid JSON: fs.readJson rejects
Garbled == [garbled |-> TRUE]

\* the file an awaited call of saveMigrationFiles writes
FileOfStep ==
    [writeJson |-> "migration.json", writeUp |-> "up.sql", writeDown |-> "down.sql"]

\* what a rejected fs.writeJson / fs.writeFile leaves behind: nothing when the
\* file could not be opened, and otherwise the file, created and cut short
\* (the disk is full, the write is interrupted)
Leftover(disk, id, step, partial) ==
    IF partial
        THEN WriteFile(disk, id, FileOfStep[step],
                       IF step = "writeJson" THEN Garbled ELSE <<>>)
        ELSE disk

\* fs.ensureDir(path.join(migrationsDir, id)): the directory and its parents
\* are created unless they exist; files already in the directory stay
EnsureDirOn(disk, id) ==
    [disk EXCEPT !.root = TRUE,
                 !.dirs = IF id \in DOMAIN disk.dirs
                             THEN disk.dirs
                             ELSE (id :> EmptyDir) @@ disk.dirs]

\* the early return on an empty change list is missing
generateMigrationNoEarlyReturn(cs, name) ==
    /\ pc = "idle"
    /\ calls < MaxCalls
    /\ calls' = calls + 1
    /\ changes' = cs
    /\ migrationName' = name
    /\ upStatements' = UpStatements(cs)
    /\ downStatements' = DownStatements(cs)
    /\ upSql' = JoinStatements(upStatements')
    /\ downSql' = JoinStatements(downStatements')
    /\ migration' = [id |-> MigrationId(Timestamp(clock), name),
                     name |-> MigrationNameOf(Timestamp(clock), name),
                     timestamp |-> Timestamp(clock),
                     upSql |-> upSql',
                     downSql |-> downSql']
    /\ pc' = "ensureDir"
    /\ UNCHANGED <<diffVars, ret, fs, clock, returned, mgrVars, listVars, backup>>

\* generateMigration up to its first await: the early return, the loop over
\* the changes, the timestamp, the id and the Migration object
generateMigration(cs, name) ==
    /\ pc = "idle"
    /\ calls < MaxCalls
    /\ calls' = calls + 1
    /\ changes' = cs
    /\ migrationName' = name
    /\ IF Len(cs) = 0
        THEN /\ ret' = Null
             /\ pc' = "returned"
             /\ UNCHANGED <<sqlVars, migration>>
        ELSE /\ upStatements' = UpStatements(cs)
             /\ downStatements' = DownStatements(cs)
             /\ upSql' = JoinStatements(upStatements')
             /\ downSql' = JoinStatements(downStatements')
             /\ migration' = [id |-> MigrationId(Timestamp(clock), name),
                              name |-> MigrationNameOf(Timestamp(clock), name),
                              timestamp |-> Timestamp(clock),
                              upSql |-> upSql',
                              downSql |-> downSql']
             /\ pc' = "ensureDir"
             /\ UNCHANGED ret
    /\ UNCHANGED <<diffVars, fs, clock, returned, mgrVars, listVars, backup>>

\* saveMigrationFiles: await fs.ensureDir(migrationDir)
EnsureDir ==
    /\ pc = "ensureDir"
    /\ fs' = EnsureDirOn(fs, migration.id)
    /\ pc' = "writeJson"
    /\ UNCHANGED <<diffVars, changes, sqlVars, migrationName, migration, ret, clock, calls,
                   returned, mgrVars, listVars, backup>>

\* saveMigrationFiles: await fs.writeJson(migration.json)
WriteJson ==
    /\ pc = "writeJson"
    /\ fs' = WriteFile(fs, migration.id, "migration.json",
                       [id |-> migration.id, name |-> migration.name,
                        timestamp |-> migration.timestamp])
    /\ pc' = "writeUp"
    /\ UNCHANGED <<diffVars, changes, sqlVars, migrationName, migration, ret, clock, calls,
                   returned, mgrVars, listVars, backup>>

\* saveMigrationFiles: await fs.writeFile(up.sql)
WriteUp ==
    /\ pc = "writeUp"
    /\ fs' = WriteFile(fs, migration.id, "up.sql", migration.upSql)
    /\ pc' = "writeDown"
    /\ UNCHANGED <<diffVars, changes, sqlVars, migrationName, migration, ret, clock, calls,
                   returned, mgrVars, listVars, backup>>

\* saveMigrationFiles: await fs.writeFile(down.sql), then return migration
WriteDown ==
    /\ pc = "writeDown"
    /\ fs' = WriteFile(fs, migration.id, "down.sql", migration.downSql)
    /\ ret' = migration
    /\ returned' = Append(returned, migration)
    /\ pc' = "returned"
    /\ UNCHANGED <<diffVars, changes, sqlVars, migrationName, migration, clock, calls,
                   mgrVars, listVars, backup>>

\* one of the awaited fs calls of saveMigrationFiles rejects: the rejection
\* passes through saveMigrationFiles and generateMigration to the caller
SaveFails(partial) ==
    /\ pc \in {"ensureDir", "writeJson", "writeUp", "writeDown"}
    /\ partial => pc # "ensureDir"
    /\ fs' = Leftover(fs, migration.id, pc, partial)
    /\ ret' = Thrown
    /\ pc' = "returned"
    /\ UNCHANGED <<diffVars, changes, sqlVars, migrationName, migration, clock, calls,
                   returned, mgrVars, listVars, backup>>

\* the caller goes on after the call has returned
Resume ==
    /\ pc = "returned"
    /\ pc' = "idle"
    /\ UNCHANGED <<diffVars, changes, sqlVars, genVars, mgrVars, listVars, backup>>

\* a second passes
Tick ==
    /\ clock < MaxClock
    /\ clock' = clock + 1
    /\ UNCHANGED <<pc, diffVars, changes, sqlVars, migrationName, migration, ret, fs, calls,
                   returned, mgrVars, listVars, backup>>

(***************************************************************************)
(* Inputs of compareSchemas: parsed schemas                                  *)
(***************************************************************************)
\* the attributes @id, @unique, @default(now()) and one whose text holds a
\* question mark, @map("?")
Attr ==
    [id |-> <<"@id">>, unique |-> <<"@unique">>,
     default |-> <<"@default", "(now())">>, mapQ |-> <<"@map", "(\"?\")">>]

\* the types Int, String, String? and Int?
Type ==
    [int |-> <<"Int">>, string |-> <<"String">>, stringOpt |-> <<"String", "?">>,
     intOpt |-> <<"Int", "?">>]

\* the fields `id Int @id`, `id String @id`, `bio String?` and `age String?`
Field ==
    [id |-> ModelField("id", Type.int, <<>>, <<Attr.id>>),
     idString |-> ModelField("id", Type.string, <<>>, <<Attr.id>>),
     bio |-> ModelField("bio", Type.stringOpt, <<>>, <<>>),
     age |-> ModelField("age", Type.stringOpt, <<>>, <<>>)]

ModelNames == {"User", "Post"}

\* the field lists of the models: a base list, the base with bio renamed to age,
\* a list that adds age, drops bio and alters id, and the base permuted
FieldLists ==
    { <<Field.id, Field.bio>>, <<Field.id, Field.age>>,
      <<Field.idString, Field.age>>, <<Field.bio, Field.id>> }

ModelPool == {Model(n, fields) : n \in ModelNames, fields \in FieldLists}

\* schemas of up to MaxModels models; the parser emits one model per block of
\* the text, so a name may repeat
Schemas == SeqsUpTo(ModelPool, MaxModels)

\* one model with one field, the field in every variant of type, modifiers
\* and attributes
FieldVariants ==
    { ModelField("id", t, m, a) :
        t \in {Type.int, Type.string},
        m \in {<<>>, <<"array">>},
        a \in SeqsUpTo({Attr.id, Attr.unique}, MaxAttrs) }

FieldSchemas == { <<Model("User", <<f>>)>> : f \in FieldVariants }

CompareInputs == (Schemas \X Schemas) \cup (FieldSchemas \X FieldSchemas)

(***************************************************************************)
(* Specification SpecDiff: compareSchemas applied to every pair of inputs    *)
(***************************************************************************)
InitDiff ==
    /\ pc = "start"
    /\ \E pair \in CompareInputs :
        /\ oldSchema = pair[1]
        /\ newSchema = pair[2]
    /\ changes = <<>>
    /\ upStatements = <<>>
    /\ downStatements = <<>>
    /\ upSql = <<>>
    /\ downSql = <<>>
    /\ GenIdle
    /\ MgrIdle
    /\ ListIdle
    /\ backup = Unreadable

Compare ==
    /\ pc = "start"
    /\ changes' = compareSchemas(oldSchema, newSchema)
    /\ pc' = "done"
    /\ UNCHANGED <<diffVars, sqlVars, genVars, mgrVars, listVars, backup>>

NextDiff == Compare

SpecDiff == InitDiff /\ [][NextDiff]_vars

(***************************************************************************)
(* Properties of compareSchemas (checked under SpecDiff)                     *)
(***************************************************************************)
NamesOf(schema) == {schema[i].name : i \in DOMAIN schema}

FieldNamesOf(model) == {model.fields[i].name : i \in DOMAIN model.fields}

UniqueModelNames(schema) ==
    \A i, j \in DOMAIN schema : schema[i].name = schema[j].name => i = j

UniqueFieldNames(schema) ==
    \A k \in DOMAIN schema :
        \A i, j \in DOMAIN schema[k].fields :
            schema[k].fields[i].name = schema[k].fields[j].name => i = j

\* the invariant of a ParsedSchema: names are unique
ValidSchema(schema) == UniqueModelNames(schema) /\ UniqueFieldNames(schema)

FieldLevel == {"CREATE_FIELD", "DELETE_FIELD", "ALTER_FIELD"}

\* the number of changes of type t that name model m
CountModelChanges(t, m) ==
    Cardinality({i \in DOMAIN changes : changes[i].type = t /\ changes[i].model = m})

\* the number of changes of type t that name field f of model m
CountFieldChanges(t, m, f) ==
    Cardinality({i \in DOMAIN changes :
        changes[i].type = t /\ changes[i].model = m /\ changes[i].field = f})

\* C1: for two schemas with unique model names the result holds exactly one
\* CREATE_MODEL for each model only in new, exactly one DELETE_MODEL for each
\* model only in old, and no field-level change that names such a model.
C1_DiffCompleteness ==
    (pc = "done" /\ UniqueModelNames(oldSchema) /\ UniqueModelNames(newSchema)) =>
        /\ \A n \in NamesOf(newSchema) \ NamesOf(oldSchema) :
            CountModelChanges("CREATE_MODEL", n) = 1
        /\ \A n \in NamesOf(oldSchema) \ NamesOf(newSchema) :
            CountModelChanges("DELETE_MODEL", n) = 1
        /\ \A i \in DOMAIN changes :
            changes[i].type \in FieldLevel =>
                /\ changes[i].model \in NamesOf(oldSchema)
                /\ changes[i].model \in NamesOf(newSchema)

\* a model was created, another deleted, in schemas with unique model names
C1_Witness ==
    /\ pc = "done"
    /\ UniqueModelNames(oldSchema) /\ UniqueModelNames(newSchema)
    /\ NamesOf(newSchema) \ NamesOf(oldSchema) # {}
    /\ NamesOf(oldSchema) \ NamesOf(newSchema) # {}
    /\ Len(changes) = 2

\* the index of the first model of the schema with that name
PositionIn(schema, n) ==
    CHOOSE i \in DOMAIN schema :
        schema[i].name = n /\ \A j \in 1..(i - 1) : schema[j].name # n

Phase(c) ==
    CASE c.type = "CREATE_MODEL" -> 1
      [] c.type = "DELETE_MODEL" -> 2
      [] OTHER -> 3

FieldPhase(c) ==
    CASE c.type = "CREATE_FIELD" -> 1
      [] c.type = "DELETE_FIELD" -> 2
      [] OTHER -> 3

\* C2: the changes come in one fixed order: the CREATE_MODEL changes in the
\* order of new, then the DELETE_MODEL changes in the order of old, then the
\* field-level changes grouped by model in the order of old, and within one
\* model CREATE_FIELD before DELETE_FIELD before ALTER_FIELD.
C2_EmissionOrder ==
    pc = "done" =>
        \A i, j \in DOMAIN changes :
            i < j =>
                LET a == changes[i]
                    b == changes[j]
                IN /\ Phase(a) <= Phase(b)
                   /\ (a.type = "CREATE_MODEL" /\ b.type = "CREATE_MODEL") =>
                        PositionIn(newSchema, a.model) < PositionIn(newSchema, b.model)
                   /\ (a.type = "DELETE_MODEL" /\ b.type = "DELETE_MODEL") =>
                        PositionIn(oldSchema, a.model) < PositionIn(oldSchema, b.model)
                   /\ (a.type \in FieldLevel /\ b.type \in FieldLevel) =>
                        /\ PositionIn(oldSchema, a.model) <= PositionIn(oldSchema, b.model)
                        /\ a.model = b.model => FieldPhase(a) <= FieldPhase(b)

\* two models have field-level changes, one of them of all three types
C2_Witness ==
    /\ pc = "done"
    /\ \E i, j \in DOMAIN changes :
        /\ changes[i].type \in FieldLevel /\ changes[j].type \in FieldLevel
        /\ changes[i].model # changes[j].model
    /\ \E m \in NamesOf(oldSchema) :
        \A t \in FieldLevel : CountModelChanges(t, m) > 0

\* the number of occurrences of x in the sequence s
Occurrences(x, s) == Cardinality({i \in DOMAIN s : s[i] = x})

SameMultiset(a, b) ==
    \A x \in Range(a) \cup Range(b) : Occurrences(x, a) = Occurrences(x, b)

FieldsDiffer(f, g) ==
    \/ f.type # g.type
    \/ Range(f.modifiers) # Range(g.modifiers)
    \/ ~SameMultiset(f.attributes, g.attributes)

\* the field of that name in the model of that name (names unique)
TheModel(schema, m) == CHOOSE x \in Range(schema) : x.name = m

TheField(schema, m, f) == CHOOSE x \in Range(TheModel(schema, m).fields) : x.name = f

\* C3: for a field name present in both versions of a model an ALTER_FIELD is
\* emitted if and only if the types differ, or the modifiers differ as sets,
\* or the attributes differ as multisets (their order is ignored).
C3_AlterIffDiffers ==
    (pc = "done" /\ ValidSchema(oldSchema) /\ ValidSchema(newSchema)) =>
        \A m \in NamesOf(oldSchema) \cap NamesOf(newSchema) :
            \A f \in FieldNamesOf(TheModel(oldSchema, m))
                        \cap FieldNamesOf(TheModel(newSchema, m)) :
                (CountFieldChanges("ALTER_FIELD", m, f) > 0)
                    <=> FieldsDiffer(TheField(oldSchema, m, f), TheField(newSchema, m, f))

\* a field whose two versions differ only in the order of its attributes,
\* and no change was emitted
C3_Witness ==
    /\ pc = "done"
    /\ Len(oldSchema) = 1 /\ Len(newSchema) = 1
    /\ Len(oldSchema[1].fields) = 1 /\ Len(newSchema[1].fields) = 1
    /\ oldSchema[1].name = newSchema[1].name
    /\ LET f == oldSchema[1].fields[1]
           g == newSchema[1].fields[1]
       IN /\ f.name = g.name
          /\ f.attributes # g.attributes
          /\ ~FieldsDiffer(f, g)
    /\ changes = <<>>

\* C4: a schema with unique model and field names compared with itself
\* yields no changes.
C4_SelfDiffEmpty ==
    (pc = "done" /\ oldSchema = newSchema /\ ValidSchema(oldSchema)) => changes = <<>>

\* a schema of two models, with attributes, was compared with itself
C4_Witness ==
    /\ pc = "done"
    /\ oldSchema = newSchema
    /\ ValidSchema(oldSchema)
    /\ Len(oldSchema) = 2
    /\ \E i \in DOMAIN oldSchema[1].fields : oldSchema[1].fields[i].attributes # <<>>

\* new is old with field j of model i given a name the model did not have
IsFieldRename(i, j) ==
    /\ Len(newSchema) = Len(oldSchema)
    /\ i \in DOMAIN oldSchema
    /\ Len(newSchema[i].fields) = Len(oldSchema[i].fields)
    /\ j \in DOMAIN oldSchema[i].fields
    /\ newSchema[i].fields[j].name \notin FieldNamesOf(oldSchema[i])
    /\ newSchema = [oldSchema EXCEPT ![i].fields[j].name = newSchema[i].fields[j].name]

\* new is old with model i given another name
IsModelRename(i) ==
    /\ Len(newSchema) = Len(oldSchema)
    /\ i \in DOMAIN oldSchema
    /\ newSchema[i].name # oldSchema[i].name
    /\ newSchema = [oldSchema EXCEPT ![i].name = newSchema[i].name]

ModelRenameReached ==
    /\ pc = "done"
    /\ ValidSchema(oldSchema) /\ ValidSchema(newSchema)
    /\ \E i \in DOMAIN oldSchema : IsModelRename(i)

(***************************************************************************)
(* Inputs of the SQL generation: change lists                                *)
(***************************************************************************)
\* the changes compareSchemas emits for a created model with fields, a created
\* model without fields, a deleted model, a created, a deleted and an altered field
BasicChanges ==
    { SchemaChange("CREATE_MODEL", "User", NoField, Undefined,
                   Model("User", <<Field.id, Field.bio>>)),
      SchemaChange("CREATE_MODEL", "Post", NoField, Undefined, Model("Post", <<>>)),
      SchemaChange("DELETE_MODEL", "Post", NoField, Undefined, Undefined),
      SchemaChange("CREATE_FIELD", "User", "age", Undefined, Field.age),
      SchemaChange("DELETE_FIELD", "User", "bio", Undefined, Undefined),
      SchemaChange("ALTER_FIELD", "User", "id", Field.id, Field.idString) }

\* one field in every variant of type and attributes
ColumnFields ==
    { ModelField("id", t, <<>>, a) :
        t \in {Type.int, Type.string, Type.stringOpt},
        a \in SeqsUpTo({Attr.id, Attr.unique, Attr.default, Attr.mapQ}, MaxAttrs) }

ColumnChanges ==
    { SchemaChange("CREATE_FIELD", "User", f.name, Undefined, f) : f \in ColumnFields }
        \cup { SchemaChange("CREATE_MODEL", "User", NoField, Undefined,
                            Model("User", <<Field.bio, f>>)) : f \in ColumnFields }

SqlInputs ==
    (SeqsUpTo(BasicChanges, MaxChanges) \ {<<>>}) \cup { <<c>> : c \in ColumnChanges }

(***************************************************************************)
(* Specification SpecSql: the SQL generation of generateMigration applied    *)
(* to every change list                                                      *)
(***************************************************************************)
InitSql ==
    /\ pc = "start"
    /\ oldSchema = <<>>
    /\ newSchema = <<>>
    /\ changes \in SqlInputs
    /\ upStatements = <<>>
    /\ downStatements = <<>>
    /\ upSql = <<>>
    /\ downSql = <<>>
    /\ GenIdle
    /\ MgrIdle
    /\ ListIdle
    /\ backup = Unreadable

\* generateMigration from the loop over the changes to the composed scripts
BuildSql ==
    /\ pc = "start"
    /\ upStatements' = UpStatements(changes)
    /\ downStatements' = DownStatements(changes)
    /\ upSql' = JoinStatements(upStatements')
    /\ downSql' = JoinStatements(downStatements')
    /\ pc' = "composed"
    /\ UNCHANGED <<diffVars, changes, genVars, mgrVars, listVars, backup>>

NextSql == BuildSql

SpecSql == InitSql /\ [][NextSql]_vars

(***************************************************************************)
(* Properties of the SQL generation (checked under SpecSql)                  *)
(***************************************************************************)
\* the index of the first blank line of the text, 0 when it has none
FirstBlankLine(text) ==
    IF \E i \in 1..(Len(text) - 1) : text[i] = NL /\ text[i + 1] = NL
        THEN CHOOSE i \in 1..(Len(text) - 1) :
                /\ text[i] = NL /\ text[i + 1] = NL
                /\ \A j \in 1..(i - 1) : ~(text[j] = NL /\ text[j + 1] = NL)
        ELSE 0

\* the blocks of a script: the text between its blank lines
RECURSIVE Blocks(_)
Blocks(text) ==
    LET i == FirstBlankLine(text)
    IN IF i = 0 THEN <<text>>
       ELSE <<SubSeq(text, 1, i - 1)>> \o Blocks(SubSeq(text, i + 2, Len(text)))

\* the up statement and the down statement that belong to one change
UpOf(change) == UpPushed(change)[1]

DownOf(change) == DownPushed(change)[1]

\* both scripts hold one block per change, the i-th block of each script
\* being the statement of the i-th change
BlockPerChange ==
    LET up == Blocks(upSql)
        down == Blocks(downSql)
    IN /\ Len(up) = Len(changes)
       /\ Len(down) = Len(changes)
       /\ \A i \in DOMAIN changes :
            /\ up[i] = UpOf(changes[i])
            /\ down[i] = DownOf(changes[i])

CreatesEmptyModel(change) ==
    change.type = "CREATE_MODEL" /\ change.newValue.fields = <<>>

\* C6 as stated: for every non-empty change list both scripts hold exactly one
\* block per change, in the order of the changes, up and down alike.
C6_BlockPerChangeAlways ==
    (pc = "composed" /\ changes # <<>>) => BlockPerChange

\* C6 amended: the scripts are the statements of the changes in their order
\* joined by one blank line, up and down alike; when no CREATE_MODEL change
\* carries a model without fields, both scripts hold exactly one block per
\* change, the i-th blocks belonging to the i-th change.
C6_StatementsInOrder ==
    (pc = "composed" /\ changes # <<>>) =>
        /\ Len(upStatements) = Len(changes)
        /\ Len(downStatements) = Len(changes)
        /\ \A i \in DOMAIN changes :
            /\ upStatements[i] = UpOf(changes[i])
            /\ downStatements[i] = DownOf(changes[i])
        /\ upSql = Join([i \in DOMAIN changes |-> UpOf(changes[i])], <<NL, NL>>)
        /\ downSql = Join([i \in DOMAIN changes |-> DownOf(changes[i])], <<NL, NL>>)
        /\ (\A i \in DOMAIN changes : ~CreatesEmptyModel(changes[i])) => BlockPerChange

\* two different changes were turned into scripts of two blocks
C6_Witness ==
    /\ pc = "composed"
    /\ Len(changes) = 2
    /\ changes[1].type = "CREATE_FIELD"
    /\ changes[2].type = "CREATE_MODEL"
    /\ ~CreatesEmptyModel(changes[2])
    /\ Len(Blocks(upSql)) = 2
    /\ Len(Blocks(downSql)) = 2

\* the constraint tokens of a column definition: what follows name and type
ConstraintsOfColumn(column) == SubSeq(column, 3, Len(column))

\* the index of the first column separator of a column list, 0 when it has none
FirstSeparator(text) ==
    IF \E i \in 1..(Len(text) - 1) : text[i] = "," /\ text[i + 1] = NL
        THEN CHOOSE i \in 1..(Len(text) - 1) :
                /\ text[i] = "," /\ text[i + 1] = NL
                /\ \A j \in 1..(i - 1) : ~(text[j] = "," /\ text[j + 1] = NL)
        ELSE 0

RECURSIVE SplitColumns(_)
SplitColumns(text) ==
    LET i == FirstSeparator(text)
    IN IF text = <<>> THEN <<>>
       ELSE IF i = 0 THEN <<text>>
       ELSE <<SubSeq(text, 1, i - 1)>> \o SplitColumns(SubSeq(text, i + 2, Len(text)))

\* the column definitions of a CREATE TABLE statement: the lines between
\* its parentheses
ColumnsOfCreateTable(statement) ==
    SplitColumns(SubSeq(statement, 5, Len(statement) - 2))

\* the column definition of an ADD COLUMN statement
ColumnOfAddColumn(statement) == SubSeq(statement, 4, Len(statement) - 1)

\* the pairs <<field, column definition>> generated for the i-th change
ColumnsGenerated(i) ==
    IF changes[i].type = "CREATE_FIELD"
        THEN {<<changes[i].newValue, ColumnOfAddColumn(upStatements[i])>>}
    ELSE IF changes[i].type = "CREATE_MODEL"
        THEN LET columns == ColumnsOfCreateTable(upStatements[i])
             IN {<<changes[i].newValue.fields[j], columns[j]>> :
                    j \in DOMAIN changes[i].newValue.fields}
    ELSE {}

HasOptionalityMarker(field) ==
    \/ field.type[Len(field.type)] = "?"
    \/ \E i \in DOMAIN field.attributes : Includes(field.attributes[i], "?")

HasDefault(field) ==
    \E i \in DOMAIN field.attributes : Includes(field.attributes[i], "@default")

\* C7: the column definition of a field of a CREATE_MODEL or CREATE_FIELD
\* change holds NOT NULL if and only if the field has neither an optionality
\* marker nor a @default attribute.
C7_NotNullIffRequired ==
    pc = "composed" =>
        \A i \in DOMAIN changes :
            \A fc \in ColumnsGenerated(i) :
                ("NOT NULL" \in Range(ConstraintsOfColumn(fc[2])))
                    <=> (~HasOptionalityMarker(fc[1]) /\ ~HasDefault(fc[1]))

ConstraintRank(token) ==
    CASE token = "PRIMARY KEY" -> 1
      [] token = "UNIQUE" -> 2
      [] token = "NOT NULL" -> 3
      [] OTHER -> 0

\* C8: the constraint tokens of every column definition come in the order
\* PRIMARY KEY, UNIQUE, NOT NULL and none comes twice.
C8_ConstraintOrder ==
    pc = "composed" =>
        \A i \in DOMAIN changes :
            \A fc \in ColumnsGenerated(i) :
                LET tokens == ConstraintsOfColumn(fc[2])
                IN \A a, b \in DOMAIN tokens :
                    a < b => ConstraintRank(tokens[a]) < ConstraintRank(tokens[b])

\* C9: the up statement of a CREATE_MODEL change is a CREATE TABLE of the
\* lowercased model name with one column definition per field, in the order
\* of the fields, and the down statement is DROP TABLE IF EXISTS of that table.
C9_CreateTableRoundTrip ==
    pc = "composed" =>
        \A i \in DOMAIN changes :
            changes[i].type = "CREATE_MODEL" =>
                LET up == upStatements[i]
                    down == downStatements[i]
                    fields == changes[i].newValue.fields
                    columns == ColumnsOfCreateTable(up)
                IN /\ SubSeq(up, 1, 4) = <<"CREATE TABLE", LowerCased[changes[i].model], "(", NL>>
                   /\ SubSeq(up, Len(up) - 1, Len(up)) = <<NL, ");">>
                   /\ Len(columns) = Len(fields)
                   /\ \A j \in DOMAIN fields :
                        /\ Len(columns[j]) >= 2
                        /\ columns[j][1] = fields[j].name
                   /\ down = <<"DROP TABLE IF EXISTS", up[2], ";">>

\* a model of two fields was turned into a CREATE TABLE of two columns
C9_Witness ==
    /\ pc = "composed"
    /\ \E i \in DOMAIN changes :
        /\ changes[i].type = "CREATE_MODEL"
        /\ changes[i].model = "User"
        /\ Len(changes[i].newValue.fields) = 2
        /\ upStatements[i][2] = "user"
        /\ Len(ColumnsOfCreateTable(upStatements[i])) = 2

(***************************************************************************)
(* Specification SpecGen: calls of generateMigration on one migrations       *)
(* directory                                                                 *)
(***************************************************************************)
\* schema.prisma before and after an edit
SchemaInitial == <<Model("User", <<Field.id>>)>>

SchemaModified == <<Model("User", <<Field.id, Field.bio>>), Model("Post", <<Field.id>>)>>

\* the change lists handed to generateMigration: the diffs between the two
\* schemas, the empty diff among them
GenInputs == {compareSchemas(a, b) : a, b \in {SchemaInitial, SchemaModified}}

\* the names a caller passes: none, the name of the tests, and a name typed on
\* the command line that holds a path separator ("fix/users")
GenNames == {NoName, <<"test_migration">>, <<"fix", "/", "users">>}

InitGen ==
    /\ pc = "idle"
    /\ oldSchema = <<>>
    /\ newSchema = <<>>
    /\ changes = <<>>
    /\ upStatements = <<>>
    /\ downStatements = <<>>
    /\ upSql = <<>>
    /\ downSql = <<>>
    /\ migrationName = NoName
    /\ migration = NoMigration
    /\ ret = NoResult
    /\ fs \in {[root |-> FALSE, dirs |-> EmptyDir, files |-> EmptyDir],
               [root |-> TRUE, dirs |-> EmptyDir, files |-> EmptyDir]}
    /\ clock = 0
    /\ calls = 0
    /\ returned = <<>>
    /\ MgrIdle
    /\ ListIdle
    /\ backup = Unreadable

NextGen ==
    \/ \E cs \in GenInputs, name \in GenNames : generateMigration(cs, name)
    \/ EnsureDir
    \/ WriteJson
    \/ WriteUp
    \/ WriteDown
    \/ \E partial \in BOOLEAN : SaveFails(partial)
    \/ Resume
    \/ Tick

SpecGen == InitGen /\ [][NextGen]_vars

\* C10: a call of generateMigration with an empty change list returns null
\* and writes nothing: the migrations directory is as it was before the call,
\* whatever name is passed.
C10_EmptyChangesNoWrite ==
    [][(pc = "idle" /\ pc' # "idle" /\ changes' = <<>>) =>
            (ret' = Null /\ pc' = "returned" /\ fs' = fs)]_vars

\* a call with no changes and a name returned null on a directory that
\* holds an earlier migration
C10_Witness ==
    /\ pc = "returned"
    /\ changes = <<>>
    /\ migrationName # NoName
    /\ ret = Null
    /\ calls = 2
    /\ fs.dirs # EmptyDir

\* the value is a Migration object
IsMigration(m) == "id" \in DOMAIN m

\* the directory of migration m on disk holds the three files of m
HoldsFilesOf(disk, m) ==
    /\ disk.root
    /\ m.id \in DOMAIN disk.dirs
    /\ DOMAIN disk.dirs[m.id] = {"migration.json", "up.sql", "down.sql"}
    /\ disk.dirs[m.id]["migration.json"] =
            [id |-> m.id, name |-> m.name, timestamp |-> m.timestamp]
    /\ disk.dirs[m.id]["up.sql"] = m.upSql
    /\ disk.dirs[m.id]["down.sql"] = m.downSql

\* C11: whenever generateMigration returns a Migration m, at that moment the
\* directory <migrationsDir>/<m.id> exists and holds migration.json with
\* m.id, m.name and m.timestamp, up.sql equal to m.upSql and down.sql equal
\* to m.downSql.
C11_ReturnedIsDurable ==
    (pc = "returned" /\ IsMigration(ret)) => HoldsFilesOf(fs, ret)

\* a second call returned a migration into a migrations root that did not
\* exist before the first call
C11_Witness ==
    /\ pc = "returned"
    /\ IsMigration(ret)
    /\ calls = 2
    /\ Len(returned) = 2
    /\ returned[1].id # returned[2].id
    /\ HoldsFilesOf(fs, returned[1])

\* C12: no two migrations returned by generateMigration calls against one
\* migrations directory share an id, whatever the names and the clock
\* readings of the calls.
C12_NoIdReuse ==
    \A i, j \in DOMAIN returned : i # j => returned[i].id # returned[j].id

\* the place of a timestamp in time: fourteen digits compare as the instants
TimestampRank(t) == CHOOSE i \in DOMAIN TimestampText : TimestampText[i] = t

\* C13: the timestamp of each migration returned by generateMigration is
\* greater than the timestamp of every migration returned by an earlier call.
C13_TimestampsIncrease ==
    \A i, j \in DOMAIN returned :
        i < j => TimestampRank(returned[i].timestamp) < TimestampRank(returned[j].timestamp)

\* the segments path.join splits a relative path into
RECURSIVE PathSegments(_)
PathSegments(id) ==
    IF "/" \notin Range(id) THEN <<id>>
    ELSE LET k == CHOOSE i \in DOMAIN id :
                      id[i] = "/" /\ \A j \in 1..(i - 1) : id[j] # "/"
         IN <<SubSeq(id, 1, k - 1)>> \o PathSegments(SubSeq(id, k + 1, Len(id)))

\* C14: the id of every migration holds no path separator, so every migration
\* directory on disk is an immediate subdirectory of the migrations root.
C14_IdIsOneSegment ==
    /\ IsMigration(migration) => "/" \notin Range(migration.id)
    /\ \A id \in DOMAIN fs.dirs : Len(PathSegments(id)) = 1

(***************************************************************************)
(* schemaParser.ts: parseSchema                                              *)
(*                                                                           *)
(* The text of a schema file is a sequence of blocks `keyword name { ... }`; *)
(* the body of a block is a sequence of lines and a line is the sequence of  *)
(* its tokens, the pieces between white space.  The first token is a plain   *)
(* string, the others are sequences of lexemes.                              *)
(***************************************************************************)
Block(k, n, ls) == [keyword |-> k, name |-> n, lines |-> ls]

\* lexemes that begin with "@"
AtLexemes == {"@id", "@unique", "@default", "@map"}

\* trimmedLine.match(/@[^@]+/g), each match trimmed: an attribute runs from
\* its "@" up to the next "@" or the end of the line, white space inside it
\* included
RECURSIVE AttributeMatch(_, _)
AttributeMatch(tokens, found) ==
    IF tokens = <<>> THEN found
    ELSE IF Head(Head(tokens)) \in AtLexemes
        THEN AttributeMatch(Tail(tokens), Append(found, Head(tokens)))
    ELSE IF found = <<>> THEN AttributeMatch(Tail(tokens), found)
    ELSE AttributeMatch(Tail(tokens),
                        [found EXCEPT ![Len(found)] = @ \o <<" ">> \o Head(tokens)])

\* fieldType.replace("[]", ""): the first "[]" is removed
RECURSIVE WithoutBrackets(_)
WithoutBrackets(fieldType) ==
    IF fieldType = <<>> THEN <<>>
    ELSE IF Head(fieldType) = "[]" THEN Tail(fieldType)
    ELSE <<Head(fieldType)>> \o WithoutBrackets(Tail(fieldType))

\* the line is skipped: blank, a full-line comment, or fewer than two tokens
SkippedLine(line) ==
    \/ line = <<>>
    \/ Head(line) = "//"
    \/ Len(line) < 2

\* the field pushed for a line of a model block
ParsedField(line) ==
    ModelField(line[1],
               WithoutBrackets(line[2]),
               IF line[2][Len(line[2])] = "[]" THEN <<"array">> ELSE <<>>,
               AttributeMatch(SubSeq(line, 3, Len(line)), <<>>))

\* each field is put before the fields of the earlier lines
RECURSIVE ParsedFieldsNewestFirst(_)
ParsedFieldsNewestFirst(lines) ==
    IF lines = <<>> THEN <<>>
    ELSE IF SkippedLine(Head(lines)) THEN ParsedFieldsNewestFirst(Tail(lines))
    ELSE ParsedFieldsNewestFirst(Tail(lines)) \o <<ParsedField(Head(lines))>>

\* the loop over fieldLines: a field is pushed for every line not skipped
RECURSIVE ParsedFields(_)
ParsedFields(lines) ==
    IF lines = <<>> THEN <<>>
    ELSE IF SkippedLine(Head(lines)) THEN ParsedFields(Tail(lines))
    ELSE <<ParsedField(Head(lines))>> \o ParsedFields(Tail(lines))

\* the group ([^}]*) of modelRegex: the content of the block from its "{" up
\* to the first "}" of the text, wherever that brace stands (the name token
\* of a line holds no brace); what is left of the cut token is kept
ModelContent(lines) ==
    LET First(S) == CHOOSE i \in S : \A j \in S : i <= j
        Braced(line) == {k \in 2..Len(line) : "}" \in Range(line[k])}
        braced == {i \in DOMAIN lines : Braced(lines[i]) # {}}
    IN  IF braced = {} THEN lines
        ELSE LET line == lines[First(braced)]
                 k == First(Braced(line))
                 cut == SubSeq(line[k], 1,
                               First({j \in DOMAIN line[k] : line[k][j] = "}"}) - 1)
             IN  SubSeq(lines, 1, First(braced) - 1)
                    \o << SubSeq(line, 1, k - 1)
                              \o (IF cut = <<>> THEN <<>> ELSE <<cut>>) >>

\* the models of the text, one per match of modelRegex, in the order of the
\* blocks
RECURSIVE ParsedModels(_)
ParsedModels(text) ==
    IF text = <<>> THEN <<>>
    ELSE IF Head(text).keyword = "model"
        THEN <<Model(Head(text).name, ParsedFields(ModelContent(Head(text).lines)))>>
                 \o ParsedModels(Tail(text))
    ELSE ParsedModels(Tail(text))

\* a schema file with the given text
SchemaFile(text) == [content |-> text]

\* parseSchema of a readable file: only the models are filled in
parseSchema(file) ==
    [models |-> ParsedModels(file.content), enums |-> <<>>,
     generators |-> <<>>, datasources |-> <<>>]

(***************************************************************************)
(* migrationManager.ts: MigrationManager                                     *)
(***************************************************************************)
\* what the manager leaves alone
outsideManager ==
    <<diffVars, changes, sqlVars, migrationName, migration, ret, calls, listVars,
      backup>>

\* path.join(migrationsDir, ".schema-cache.json"), relative to migrationsDir
schemaCachePath == <<".schema-cache.json">>

\* the object saveSchemaCache writes; its timestamp is never read back and
\* is left out
CacheData(schema) == [schema |-> schema]

\* fs.writeJson(this.schemaCachePath, data)
WriteCache(disk, data) == [disk EXCEPT !.files = (schemaCachePath :> data) @@ @]

\* saveSchemaCache: the cache file is written unless previousSchema is null;
\* a failed write is logged and swallowed
saveSchemaCache(disk, schema, writeOk) ==
    IF schema # Null /\ writeOk THEN WriteCache(disk, CacheData(schema)) ELSE disk

\* loadCachedSchema: previousSchema after the call
loadCachedSchema(prev, disk) ==
    IF schemaCachePath \in DOMAIN disk.files
        THEN disk.files[schemaCachePath].schema
        ELSE prev

\* the baseline is always the schema file, the cache is never loaded
initializeFromFile(prev, disk, file, writeOk) ==
    LET ensured == [disk EXCEPT !.root = TRUE]
    IN  IF file = Unreadable
            THEN [previousSchema |-> prev, fs |-> ensured,
                  isInitialized |-> FALSE, threw |-> TRUE]
        ELSE [previousSchema |-> parseSchema(file),
              fs |-> saveSchemaCache(ensured, parseSchema(file), writeOk),
              isInitialized |-> TRUE, threw |-> FALSE]

\* initialize: ensureDir, loadCachedSchema, and only without a cached schema
\* parseSchema and saveSchemaCache; a failed parse is thrown on
initialize(prev, disk, file, writeOk) ==
    LET ensured == [disk EXCEPT !.root = TRUE]
        loaded == loadCachedSchema(prev, ensured)
    IN  IF loaded # Null
            THEN [previousSchema |-> loaded, fs |-> ensured,
                  isInitialized |-> TRUE, threw |-> FALSE]
        ELSE IF file = Unreadable
            THEN [previousSchema |-> loaded, fs |-> ensured,
                  isInitialized |-> FALSE, threw |-> TRUE]
        ELSE [previousSchema |-> parseSchema(file),
              fs |-> saveSchemaCache(ensured, parseSchema(file), writeOk),
              isInitialized |-> TRUE, threw |-> FALSE]

\* if (!this.isInitialized) await this.initialize()
ensureInitialized(writeOk) ==
    IF isInitialized
        THEN [previousSchema |-> previousSchema, fs |-> fs,
              isInitialized |-> TRUE, threw |-> FALSE]
        ELSE initialize(previousSchema, fs, schemaFile, writeOk)

\* createMigrationName: the description of one change
Description(change) ==
    CASE change.type = "CREATE_MODEL" -> <<"add_", change.model>>
      [] change.type = "DELETE_MODEL" -> <<"remove_", change.model>>
      [] change.type = "CREATE_FIELD" -> <<"add_", change.field, "_to_", change.model>>
      [] change.type = "DELETE_FIELD" -> <<"remove_", change.field, "_from_", change.model>>
      [] change.type = "ALTER_FIELD" -> <<"change_", change.field, "_in_", change.model>>
      [] OTHER -> <<"schema_change">>

\* createMigrationName: the first two descriptions joined by "_and_"
createMigrationName(cs) ==
    LET first == SubSeq(cs, 1, IF Len(cs) < 2 THEN Len(cs) ELSE 2)
    IN Join([i \in DOMAIN first |-> Description(first[i])], <<"_and_">>)

\* generateMigration on a non-empty change list, up to its first await: the
\* statements, the timestamp, the id and the Migration object
NewMigration(cs, name, now) ==
    [id |-> MigrationId(Timestamp(now), name),
     name |-> MigrationNameOf(Timestamp(now), name),
     timestamp |-> Timestamp(now),
     upSql |-> JoinStatements(UpStatements(cs)),
     downSql |-> JoinStatements(DownStatements(cs))]

\* an execution of handleSchemaChange ("watch") or handleSchemaChangeFromCli
\* ("cli") that has been called and waits for the schema file to be read
NewRun(kind, name) ==
    [kind |-> kind, name |-> name, pc |-> "parse", newSchema |-> Null,
     changes |-> <<>>, migration |-> NoMigration, cacheData |-> Null]

\* the positions of an execution that has not come to its end
InFlight == {"parse", "ensureDir", "writeJson", "writeUp", "writeDown", "saveCache"}

\* an execution that has come to its end keeps none of its locals
Ended(run, how) == [kind |-> run.kind, pc |-> how]

RunsInFlight == {r \in DOMAIN runs : runs[r].pc \in InFlight}

\* the caller of handleSchemaChangeFromCli gets its result; nobody waits for
\* handleSchemaChange
Returns(r, result) ==
    IF runs[r].kind = "cli"
        THEN pc' = "ready" /\ answer' = result
        ELSE UNCHANGED <<pc, answer>>

\* the boolean checkForChanges resolves to
Answer(hasChanges) == [hasChanges |-> hasChanges]

\* new MigrationManager(config) in a new process
Construct ==
    /\ pc = "none"
    /\ pc' = "ready"
    /\ previousSchema' = Null
    /\ isInitialized' = FALSE
    /\ watcher' = Null
    /\ answer' = NoResult
    /\ UNCHANGED <<outsideManager, fs, clock, returned, schemaFile, watchers, pending, runs>>

\* the process ends (the end of main, process.exit): its watchers and the
\* executions still in flight end with it
Exit ==
    /\ pc \in {"ready", "busy"}
    /\ pc' = "none"
    /\ watchers' = {}
    /\ pending' = {}
    /\ runs' = [r \in DOMAIN runs |->
                    IF runs[r].pc \in InFlight THEN Ended(runs[r], "killed")
                                               ELSE runs[r]]
    /\ UNCHANGED <<outsideManager, fs, clock, returned, schemaFile, previousSchema,
                   isInitialized, watcher, answer>>

\* await manager.initialize()
Initialize(writeOk) ==
    /\ pc = "ready"
    /\ LET out == initialize(previousSchema, fs, schemaFile, writeOk)
       IN /\ previousSchema' = out.previousSchema
          /\ fs' = out.fs
          /\ isInitialized' = out.isInitialized
          /\ answer' = IF out.threw THEN Thrown ELSE Undefined
    /\ UNCHANGED <<outsideManager, pc, clock, returned, schemaFile, watcher, watchers,
                   pending, runs>>

\* checkForChanges takes the schema it has parsed as the new baseline
CheckForChangesAdvancing(writeOk) ==
    /\ pc = "ready"
    /\ LET out == ensureInitialized(writeOk)
       IN /\ previousSchema' = IF out.threw \/ schemaFile = Unreadable
                                   THEN out.previousSchema
                                   ELSE parseSchema(schemaFile)
          /\ fs' = out.fs
          /\ isInitialized' = out.isInitialized
          /\ answer' = IF out.threw THEN Thrown
                        ELSE IF schemaFile = Unreadable THEN Answer(FALSE)
                        ELSE Answer(Len(compareSchemas(out.previousSchema.models,
                                                       parseSchema(schemaFile).models)) > 0)
    /\ UNCHANGED <<outsideManager, pc, clock, returned, schemaFile, watcher, watchers,
                   pending, runs>>

\* await manager.checkForChanges()
CheckForChanges(writeOk) ==
    /\ pc = "ready"
    /\ LET out == ensureInitialized(writeOk)
       IN /\ previousSchema' = out.previousSchema
          /\ fs' = out.fs
          /\ isInitialized' = out.isInitialized
          /\ answer' = IF out.threw THEN Thrown
                        ELSE IF schemaFile = Unreadable THEN Answer(FALSE)
                        ELSE Answer(Len(compareSchemas(out.previousSchema.models,
                                                       parseSchema(schemaFile).models)) > 0)
    /\ UNCHANGED <<outsideManager, pc, clock, returned, schemaFile, watcher, watchers,
                   pending, runs>>

\* await manager.watch(): a new chokidar watcher replaces this.watcher
Watch(writeOk) ==
    /\ pc = "ready"
    /\ Cardinality(watchers) < MaxWatchers
    /\ LET out == ensureInitialized(writeOk)
           w == CHOOSE n \in 1..MaxWatchers :
                    n \notin watchers /\ \A k \in 1..(n - 1) : k \in watchers
       IN /\ previousSchema' = out.previousSchema
          /\ fs' = out.fs
          /\ isInitialized' = out.isInitialized
          /\ IF out.threw
                THEN answer' = Thrown /\ UNCHANGED <<watcher, watchers>>
                ELSE /\ answer' = Undefined
                     /\ watcher' = [id |-> w]
                     /\ watchers' = watchers \cup {w}
    /\ UNCHANGED <<outsideManager, pc, clock, returned, schemaFile, pending, runs>>

\* the watcher is closed and with it the executions in flight are given up
StopAborting ==
    /\ pc = "ready"
    /\ watcher # Null
    /\ watchers' = watchers \ {watcher.id}
    /\ pending' = pending \ {watcher.id}
    /\ watcher' = Null
    /\ runs' = [r \in DOMAIN runs |->
                    IF runs[r].pc \in InFlight THEN Ended(runs[r], "killed")
                                               ELSE runs[r]]
    /\ UNCHANGED <<outsideManager, pc, fs, clock, returned, schemaFile, previousSchema,
                   isInitialized, answer>>

\* await manager.stop(): this.watcher is closed and forgotten
Stop ==
    /\ pc = "ready"
    /\ watcher # Null
    /\ watchers' = watchers \ {watcher.id}
    /\ pending' = pending \ {watcher.id}
    /\ watcher' = Null
    /\ UNCHANGED <<outsideManager, pc, fs, clock, returned, schemaFile, previousSchema,
                   isInitialized, runs, answer>>

\* somebody removes the schema file: chokidar emits "unlink", to which the
\* manager does not listen
DeleteSchema ==
    /\ schemaFile' = Unreadable
    /\ UNCHANGED <<outsideManager, pc, fs, clock, returned, previousSchema, isInitialized,
                   watcher, watchers, pending, runs, answer>>

\* somebody saves the schema file, with new or with the same text: every open
\* watcher sees a change
EditSchema(text) ==
    /\ schemaFile' = SchemaFile(text)
    /\ pending' = pending \cup watchers
    /\ UNCHANGED <<outsideManager, pc, fs, clock, returned, previousSchema, isInitialized,
                   watcher, watchers, runs, answer>>

\* chokidar emits "change": the listener calls handleSchemaChange, which runs
\* up to its first await; the emitter does not wait for the promise
Notify(w) ==
    /\ w \in pending
    /\ Len(runs) < MaxRuns
    /\ pending' = pending \ {w}
    /\ runs' = Append(runs, NewRun("watch", NoName))
    /\ UNCHANGED <<outsideManager, pc, fs, clock, returned, schemaFile, previousSchema,
                   isInitialized, watcher, watchers, answer>>

\* await manager.handleSchemaChangeFromCli(name), up to the first await of
\* its try block
HandleSchemaChangeFromCli(name, writeOk) ==
    /\ pc = "ready"
    /\ Len(runs) < MaxRuns
    /\ LET out == ensureInitialized(writeOk)
       IN /\ previousSchema' = out.previousSchema
          /\ fs' = out.fs
          /\ isInitialized' = out.isInitialized
          /\ IF out.threw
                THEN answer' = Thrown /\ UNCHANGED <<pc, runs>>
                ELSE /\ answer' = NoResult
                     /\ pc' = "busy"
                     /\ runs' = Append(runs, NewRun("cli", name))
    /\ UNCHANGED <<outsideManager, clock, returned, schemaFile, watcher, watchers, pending>>

\* parseSchema has read the file: the diff against previousSchema, and then
\* either the baseline update (no changes, watch mode), the return of null
\* (no changes, CLI) or generateMigration up to its first await
RunParse(r) ==
    /\ runs[r].pc = "parse"
    /\ IF schemaFile = Unreadable
        THEN /\ runs' = [runs EXCEPT ![r] = Ended(@, "failed")]
             /\ Returns(r, Null)
             /\ UNCHANGED previousSchema
        ELSE LET new == parseSchema(schemaFile)
                 cs == compareSchemas(previousSchema.models, new.models)
                 name == IF runs[r].name # NoName THEN runs[r].name
                                                  ELSE createMigrationName(cs)
             IN  IF Len(cs) > 0
                    THEN /\ runs' = [runs EXCEPT ![r].pc = "ensureDir",
                                                  ![r].newSchema = new,
                                                  ![r].changes = cs,
                                                  ![r].migration =
                                                      NewMigration(cs, name, clock)]
                         /\ UNCHANGED <<pc, answer, previousSchema>>
                 ELSE IF runs[r].kind = "cli"
                    THEN /\ runs' = [runs EXCEPT ![r] = Ended(@, "done")]
                         /\ Returns(r, Null)
                         /\ UNCHANGED previousSchema
                 ELSE /\ previousSchema' = new
                      /\ runs' = [runs EXCEPT ![r].pc = "saveCache",
                                               ![r].newSchema = new,
                                               ![r].cacheData = CacheData(new)]
                      /\ UNCHANGED <<pc, answer>>
    /\ UNCHANGED <<outsideManager, fs, clock, returned, schemaFile, isInitialized, watcher,
                   watchers, pending>>

\* one awaited fs call of saveMigrationFiles completes; after the last one
\* generateMigration returns and the execution makes the parsed schema the
\* baseline and calls saveSchemaCache
RunSave(r) ==
    LET m == runs[r].migration
    IN  /\ runs[r].pc \in {"ensureDir", "writeJson", "writeUp", "writeDown"}
        /\ CASE runs[r].pc = "ensureDir" ->
                    /\ fs' = EnsureDirOn(fs, m.id)
                    /\ runs' = [runs EXCEPT ![r].pc = "writeJson"]
                    /\ UNCHANGED <<returned, previousSchema>>
             [] runs[r].pc = "writeJson" ->
                    /\ fs' = WriteFile(fs, m.id, "migration.json",
                                       [id |-> m.id, name |-> m.name,
                                        timestamp |-> m.timestamp])
                    /\ runs' = [runs EXCEPT ![r].pc = "writeUp"]
                    /\ UNCHANGED <<returned, previousSchema>>
             [] runs[r].pc = "writeUp" ->
                    /\ fs' = WriteFile(fs, m.id, "up.sql", m.upSql)
                    /\ runs' = [runs EXCEPT ![r].pc = "writeDown"]
                    /\ UNCHANGED <<returned, previousSchema>>
             [] runs[r].pc = "writeDown" ->
                    /\ fs' = WriteFile(fs, m.id, "down.sql", m.downSql)
                    /\ returned' = Append(returned, m)
                    /\ previousSchema' = runs[r].newSchema
                    /\ runs' = [runs EXCEPT ![r].pc = "saveCache",
                                             ![r].cacheData =
                                                 CacheData(runs[r].newSchema)]
        /\ UNCHANGED <<outsideManager, pc, clock, schemaFile, isInitialized, watcher,
                       watchers, pending, answer>>

\* an awaited fs call of saveMigrationFiles rejects: the catch block logs the
\* error; the baseline stays
RunSaveFails(r, partial) ==
    /\ runs[r].pc \in {"ensureDir", "writeJson", "writeUp", "writeDown"}
    /\ partial => runs[r].pc # "ensureDir"
    /\ fs' = Leftover(fs, runs[r].migration.id, runs[r].pc, partial)
    /\ runs' = [runs EXCEPT ![r] = Ended(@, "failed")]
    /\ Returns(r, Null)
    /\ UNCHANGED <<outsideManager, clock, returned, schemaFile, previousSchema,
                   isInitialized, watcher, watchers, pending>>

\* the write of saveSchemaCache completes or fails (a failure is logged and
\* swallowed) and the execution comes to its end
RunSaveCache(r, writeOk) ==
    /\ runs[r].pc = "saveCache"
    /\ fs' = IF writeOk THEN WriteCache(fs, runs[r].cacheData) ELSE fs
    /\ runs' = [runs EXCEPT ![r] = Ended(@, "done")]
    /\ Returns(r, runs[r].migration)
    /\ UNCHANGED <<outsideManager, clock, returned, schemaFile, previousSchema,
                   isInitialized, watcher, watchers, pending>>

(***************************************************************************)
(* Inputs of the manager: schema texts and migration names                   *)
(***************************************************************************)
\* the pieces of the texts: a comment line, the lines `id Int @id`,
\* `bio String?`, `bio Int`, `posts Post[]`, a line of one token,
\* `data Json @default("{}")`, and the generator block
Piece ==
    [comment |-> <<"//", <<"the", "key">>>>,
     id |-> <<"id", Type.int, Attr.id>>,
     bio |-> <<"bio", Type.stringOpt>>,
     bioInt |-> <<"bio", Type.int>>,
     ageOpt |-> <<"age", Type.intOpt>>,
     posts |-> <<"posts", <<"Post", "[]">>>>,
     orphan |-> <<"orphan">>,
     data |-> <<"data", <<"Json">>, <<"@default", "(\"{", "}", "\")">>>>,
     generator |-> Block("generator", "client", << <<"provider", <<"=">>, <<"prisma">>>> >>)]

\* schema.prisma at first, after a field has been added, and after the type
\* of the added field has been changed
Text ==
    [initial |-> <<Piece.generator, Block("model", "User", <<Piece.comment, Piece.id>>)>>,
     bio |-> <<Piece.generator, Block("model", "User", <<Piece.id, <<>>, Piece.bio>>)>>,
     bioInt |-> <<Piece.generator, Block("model", "User", <<Piece.id, Piece.bioInt>>)>>]

SchemaTexts == {Text.initial, Text.bio, Text.bioInt}

\* the texts the file has between the runs of the command line
CliTexts == {Text.initial, Text.bio}

CliNames == {NoName, <<"test_migration">>}

\* a process has constructed a manager on a migrations directory that no
\* manager has used before
ManagerConstructed ==
    /\ oldSchema = <<>>
    /\ newSchema = <<>>
    /\ changes = <<>>
    /\ upStatements = <<>>
    /\ downStatements = <<>>
    /\ upSql = <<>>
    /\ downSql = <<>>
    /\ GenIdle
    /\ ListIdle
    /\ backup = Unreadable
    /\ schemaFile = SchemaFile(Text.initial)
    /\ previousSchema = Null
    /\ isInitialized = FALSE
    /\ watcher = Null
    /\ watchers = {}
    /\ pending = {}
    /\ runs = <<>>
    /\ answer = NoResult

(***************************************************************************)
(* Specification SpecWatch: one process in watch mode while the schema file  *)
(* is edited                                                                 *)
(***************************************************************************)
InitWatch ==
    /\ pc = "ready"
    /\ ManagerConstructed

NextWatch ==
    \/ \E writeOk \in BOOLEAN : Watch(writeOk)
    \/ Stop
    \/ \E text \in SchemaTexts : EditSchema(text)
    \/ DeleteSchema
    \/ \E w \in pending : Notify(w)
    \/ \E r \in DOMAIN runs : RunParse(r)
    \/ \E r \in DOMAIN runs : RunSave(r)
    \/ \E r \in DOMAIN runs, partial \in BOOLEAN : RunSaveFails(r, partial)
    \/ \E r \in DOMAIN runs, writeOk \in BOOLEAN : RunSaveCache(r, writeOk)
    \/ Tick

SpecWatch == InitWatch /\ [][NextWatch]_vars

(***************************************************************************)
(* Specification SpecCli: processes that construct a manager, call           *)
(* initialize, checkForChanges and handleSchemaChangeFromCli and end, while  *)
(* the schema file is edited                                                 *)
(***************************************************************************)
InitCli ==
    /\ pc = "none"
    /\ ManagerConstructed

NextCli ==
    \/ Construct
    \/ Exit
    \/ \E writeOk \in BOOLEAN : Initialize(writeOk)
    \/ \E writeOk \in BOOLEAN : CheckForChanges(writeOk)
    \/ \E name \in CliNames, writeOk \in BOOLEAN : HandleSchemaChangeFromCli(name, writeOk)
    \/ \E text \in CliTexts : EditSchema(text)
    \/ DeleteSchema
    \/ \E r \in DOMAIN runs : RunParse(r)
    \/ \E r \in DOMAIN runs : RunSave(r)
    \/ \E r \in DOMAIN runs, partial \in BOOLEAN : RunSaveFails(r, partial)
    \/ \E r \in DOMAIN runs, writeOk \in BOOLEAN : RunSaveCache(r, writeOk)
    \/ Tick

SpecCli == InitCli /\ [][NextCli]_vars

(***************************************************************************)
(* Properties of the manager (checked under SpecWatch and SpecCli)           *)
(***************************************************************************)
\* generateMigration returns in execution r: its last write completes
GenerationReturns(r) ==
    /\ r \in DOMAIN runs
    /\ runs[r].pc = "writeDown"
    /\ runs'[r].pc = "saveCache"

\* C11 (generateMigration called by the executions of handleSchemaChange):
\* at the moment generateMigration returns the Migration m, the directory of
\* m holds migration.json, up.sql and down.sql of m.
C11_ReturnedIsDurableInRuns ==
    [][\A r \in DOMAIN runs :
            GenerationReturns(r) => HoldsFilesOf(fs', runs[r].migration)]_vars

\* C15: at most one execution of handleSchemaChange of the manager is in
\* flight at any time.
C15_OneRunInFlight == Cardinality(RunsInFlight) <= 1

\* execution r of handleSchemaChange comes to its end without an error: the
\* write of the cache has succeeded
CompletesWithoutError(r) ==
    /\ r \in DOMAIN runs
    /\ runs[r].kind = "watch"
    /\ runs[r].pc = "saveCache"
    /\ runs'[r].pc = "done"
    /\ fs' = WriteCache(fs, runs[r].cacheData)

\* C16: when an execution of handleSchemaChange completes without error,
\* previousSchema and the schema in the cache are the schema that execution
\* parsed, and the execution has generated a migration exactly if its diff
\* was not empty.
C16_BaselineIsParsedSchema ==
    [][\A r \in DOMAIN runs :
            CompletesWithoutError(r) =>
                /\ previousSchema' = runs[r].newSchema
                /\ fs'.files[schemaCachePath].schema = runs[r].newSchema
                /\ IsMigration(runs[r].migration) <=> Len(runs[r].changes) > 0]_vars

\* a manager that has just been constructed stands before its first operation
\* on a migrations directory that holds a schema cache
NewManagerOnCache ==
    /\ pc = "ready"
    /\ ~isInitialized
    /\ previousSchema = Null
    /\ schemaCachePath \in DOMAIN fs.files

\* the diff of the cached schema against the schema file as it is now
CachedDiff ==
    compareSchemas(fs.files[schemaCachePath].schema.models,
                   parseSchema(schemaFile).models)

\* the diff of the baseline against the schema file as it is now
BaselineDiff == compareSchemas(previousSchema.models, parseSchema(schemaFile).models)

\* execution r of handleSchemaChangeFromCli has read the schema file and goes on
CliRunDiffs(r) ==
    /\ runs[r].kind = "cli"
    /\ runs[r].pc = "parse"
    /\ runs'[r].pc \notin {"parse", "killed"}
    /\ schemaFile # Unreadable

\* execution r of handleSchemaChangeFromCli returns after saveSchemaCache
CliRunReturns(r) ==
    /\ runs[r].kind = "cli"
    /\ runs[r].pc = "saveCache"
    /\ runs'[r].pc = "done"

StopReturns == watcher # Null /\ watcher' = Null

\* C18: stop() only closes the watcher: every execution of handleSchemaChange
\* in flight stays in flight at the position it had, the baseline and the
\* disk stay as they are, and no execution is ever aborted.
C18_StopLeavesRunsInFlight ==
    [][/\ StopReturns =>
              /\ runs' = runs
              /\ previousSchema' = previousSchema
              /\ fs' = fs
              /\ watchers' = watchers \ {watcher.id}
       /\ \A r \in DOMAIN runs : runs'[r].pc # "killed"]_vars

\* stop() has returned while an execution that had read the new schema and
\* built its migration was still writing the files
C18_Witness ==
    /\ watcher = Null
    /\ watchers = {}
    /\ isInitialized
    /\ \E r \in RunsInFlight :
           /\ runs[r].pc = "writeUp"
           /\ runs[r].newSchema # previousSchema

\* after stop() the only execution has finished: its migration is saved and
\* the baseline and the cache are the schema it parsed
StoppedRunFinished ==
    /\ watcher = Null
    /\ watchers = {}
    /\ Len(runs) = 1
    /\ runs[1].pc = "done"
    /\ Len(returned) = 1
    /\ HoldsFilesOf(fs, returned[1])
    /\ previousSchema = parseSchema(SchemaFile(Text.bio))
    /\ fs.files[schemaCachePath] = CacheData(previousSchema)

(***************************************************************************)
(* migrationManager.ts: getMigrations                                        *)
(***************************************************************************)
\* an entry of the migrations directory that fs.readdir lists and fs.stat
\* rejects: a symbolic link whose target is gone
Dangling == [dangling |-> TRUE]

\* the entries of the migrations directory: the first segment of every
\* directory path and the plain files
RootEntries(disk) ==
    {PathSegments(id)[1] : id \in DOMAIN disk.dirs} \cup DOMAIN disk.files

\* fs.stat(path.join(migrationsDir, dir)) rejects
StatFails(disk, entry) ==
    \/ entry \notin RootEntries(disk)
    \/ entry \in DOMAIN disk.files /\ disk.files[entry] = Dangling

\* stats.isDirectory()
IsDirectory(disk, entry) == \E id \in DOMAIN disk.dirs : PathSegments(id)[1] = entry

\* the files right inside the directory of an entry
FilesOf(disk, entry) == IF entry \in DOMAIN disk.dirs THEN disk.dirs[entry] ELSE EmptyDir

\* the body of the loop for one directory: what is pushed onto migrations
Pushed(files) ==
    IF /\ {"migration.json", "up.sql", "down.sql"} \subseteq DOMAIN files
       /\ files["migration.json"] # Garbled
        THEN << [id |-> files["migration.json"].id,
                 name |-> files["migration.json"].name,
                 timestamp |-> files["migration.json"].timestamp,
                 upSql |-> files["up.sql"],
                 downSql |-> files["down.sql"]] >>
        ELSE <<>>

\* the loop over migrationDirs
RECURSIVE Collected(_, _)
Collected(disk, order) ==
    IF order = <<>> THEN <<>>
    ELSE IF ~IsDirectory(disk, Head(order)) THEN Collected(disk, Tail(order))
    ELSE Pushed(FilesOf(disk, Head(order))) \o Collected(disk, Tail(order))

\* migrations.sort((a, b) => a.timestamp.localeCompare(b.timestamp)): a
\* stable sort, a migration goes behind those whose timestamp is not greater
RECURSIVE InsertByTimestamp(_, _)
InsertByTimestamp(m, sorted) ==
    IF sorted = <<>> THEN <<m>>
    ELSE IF TimestampRank(Head(sorted).timestamp) <= TimestampRank(m.timestamp)
        THEN <<Head(sorted)>> \o InsertByTimestamp(m, Tail(sorted))
    ELSE <<m>> \o sorted

RECURSIVE SortByTimestamp(_)
SortByTimestamp(ms) ==
    IF ms = <<>> THEN <<>>
    ELSE InsertByTimestamp(ms[Len(ms)], SortByTimestamp(SubSeq(ms, 1, Len(ms) - 1)))

\* the migrations are returned in the order of the directory listing
getMigrationsUnsorted(disk, order) ==
    IF ~disk.root \/ \E i \in DOMAIN order : StatFails(disk, order[i])
        THEN Thrown
        ELSE [migrations |-> Collected(disk, order)]

\* getMigrations: readdir and stat are outside the try block, so a rejection
\* of either rejects the call
getMigrations(disk, order) ==
    IF ~disk.root \/ \E i \in DOMAIN order : StatFails(disk, order[i])
        THEN Thrown
        ELSE [migrations |-> SortByTimestamp(Collected(disk, order))]

\* await manager.getMigrations()
GetMigrations ==
    /\ pc = "start"
    /\ listed' = getMigrations(fs, listing)
    /\ pc' = "listed"
    /\ UNCHANGED <<diffVars, changes, sqlVars, genVars, mgrVars, listing, backup>>

(***************************************************************************)
(* Specification SpecList: getMigrations applied to migrations directories   *)
(* and to every order of their listing                                       *)
(***************************************************************************)
\* the three files saveMigrationFiles writes for migration m
SavedFiles(m) ==
    ("migration.json" :> [id |-> m.id, name |-> m.name, timestamp |-> m.timestamp])
        @@ ("up.sql" :> m.upSql) @@ ("down.sql" :> m.downSql)

\* the files of the directory without the named one
Without(files, name) == [f \in DOMAIN files \ {name} |-> files[f]]

ListChanges == compareSchemas(SchemaInitial, SchemaModified)

\* an entry of the migrations directory: a directory with its files or a
\* plain file with its content
Entry(path, isDirectory, content) ==
    [path |-> path, isDirectory |-> isDirectory, content |-> content]

\* what a migrations directory may hold: three saved migrations, two of them
\* of the same second; a directory without down.sql; a directory whose
\* migration.json is not JSON; the schema cache; a dangling link
EntryPool ==
    { Entry(NewMigration(ListChanges, <<"test_migration">>, 0).id, TRUE,
               SavedFiles(NewMigration(ListChanges, <<"test_migration">>, 0))),
      Entry(NewMigration(ListChanges, <<"test_migration">>, 1).id, TRUE,
               SavedFiles(NewMigration(ListChanges, <<"test_migration">>, 1))),
      Entry(NewMigration(ListChanges, NoName, 0).id, TRUE,
               SavedFiles(NewMigration(ListChanges, NoName, 0))),
      Entry(NewMigration(ListChanges, NoName, 1).id, TRUE,
               Without(SavedFiles(NewMigration(ListChanges, NoName, 1)), "down.sql")),
      Entry(NewMigration(ListChanges, NoName, 2).id, TRUE,
               [SavedFiles(NewMigration(ListChanges, NoName, 2))
                    EXCEPT !["migration.json"] = Garbled]),
      Entry(schemaCachePath, FALSE, CacheData(parseSchema(SchemaFile(Text.initial)))),
      Entry(<<"latest">>, FALSE, Dangling) }

\* the migrations directory that holds the given entries
DiskOf(entries) ==
    [root |-> TRUE,
     dirs |-> [p \in {e.path : e \in {x \in entries : x.isDirectory}} |->
                  (CHOOSE e \in entries : e.path = p).content],
     files |-> [p \in {e.path : e \in {x \in entries : ~x.isDirectory}} |->
                   (CHOOSE e \in entries : e.path = p).content]]

\* the orders in which fs.readdir may list the entries
Listings(names) ==
    {order \in [1..Cardinality(names) -> names] :
        \A i, j \in DOMAIN order : i # j => order[i] # order[j]}

InitList ==
    /\ pc = "start"
    /\ oldSchema = <<>>
    /\ newSchema = <<>>
    /\ changes = <<>>
    /\ upStatements = <<>>
    /\ downStatements = <<>>
    /\ upSql = <<>>
    /\ downSql = <<>>
    /\ migrationName = NoName
    /\ migration = NoMigration
    /\ ret = NoResult
    /\ clock = 0
    /\ calls = 0
    /\ returned = <<>>
    /\ MgrIdle
    /\ \E entries \in SUBSET EntryPool :
           /\ Cardinality(entries) <= MaxEntries
           /\ fs \in {DiskOf(entries)} \cup
                      (IF entries = {} THEN {[DiskOf(entries) EXCEPT !.root = FALSE]} ELSE {})
    /\ listing \in Listings(RootEntries(fs))
    /\ listed = NoResult
    /\ backup = Unreadable

NextList == GetMigrations

SpecList == InitList /\ [][NextList]_vars

\* C19: the migrations getMigrations returns are in ascending order of their
\* timestamps, whatever the order of the directory listing.
C19_SortedByTimestamp ==
    (pc = "listed" /\ listed # Thrown) =>
        \A i, j \in DOMAIN listed.migrations :
            i < j => TimestampRank(listed.migrations[i].timestamp)
                        <= TimestampRank(listed.migrations[j].timestamp)

\* the listing names a later migration before an earlier one, and both are
\* returned
C19_Witness ==
    /\ pc = "listed"
    /\ listed # Thrown
    /\ Len(listed.migrations) >= 2
    /\ \E i, j \in DOMAIN listing :
           /\ i < j
           /\ IsDirectory(fs, listing[i]) /\ IsDirectory(fs, listing[j])
           /\ Pushed(FilesOf(fs, listing[i])) # <<>>
           /\ Pushed(FilesOf(fs, listing[j])) # <<>>
           /\ TimestampRank(Pushed(FilesOf(fs, listing[i]))[1].timestamp)
                  > TimestampRank(Pushed(FilesOf(fs, listing[j]))[1].timestamp)

\* the immediate subdirectories that hold the three files, with a
\* migration.json that can be read
CompleteDirs(disk) ==
    {entry \in RootEntries(disk) :
        IsDirectory(disk, entry) /\ Pushed(FilesOf(disk, entry)) # <<>>}

\* C20: getMigrations returns exactly one entry for each immediate
\* subdirectory that holds migration.json, up.sql and down.sql, and skips
\* every other entry of the migrations directory without failing.
C20_ListsCompleteDirs ==
    (pc = "listed" /\ fs.root) =>
        /\ listed # Thrown
        /\ Len(listed.migrations) = Cardinality(CompleteDirs(fs))
        /\ {listed.migrations[i].id : i \in DOMAIN listed.migrations} = CompleteDirs(fs)

(***************************************************************************)
(* Specification SpecSave: one writer that calls generateMigration and a     *)
(* reader that calls getMigrations between the steps of the writer           *)
(***************************************************************************)
\* await manager.getMigrations() in another process: the call lies between
\* two awaited fs calls of the writer
ReadMigrations(order) ==
    /\ listing' = order
    /\ listed' = getMigrations(fs, order)
    /\ UNCHANGED <<pc, diffVars, changes, sqlVars, genVars, mgrVars, backup>>

NextSave ==
    \/ NextGen
    \/ \E order \in Listings(RootEntries(fs)) : ReadMigrations(order)

SpecSave == InitGen /\ [][NextSave]_vars

\* the entries of a listing that did not fail
Listed == IF listed \in {NoResult, Thrown} THEN <<>> ELSE listed.migrations

\* saveMigrationFiles has created the directory and has not written down.sql
Saving == pc \in {"writeJson", "writeUp", "writeDown"}

\* getMigrations returns what it has read from the disk as it is now
ReaderReturns ==
    /\ fs' = fs
    /\ pc' = pc
    /\ listed' = getMigrations(fs, listing')

\* C21: a getMigrations call between the steps of saveMigrationFiles returns
\* no entry for the migration that is being saved: an entry it returns under
\* the id of that migration is a migration whose three files had all been
\* written, with the content that was written for it.
C21_ReaderSeesCompleteOrNothing ==
    [][(Saving /\ ReaderReturns) =>
            \A i \in DOMAIN Listed' :
                Listed'[i].id = migration.id => Listed'[i] \in Range(returned)]_vars

\* an awaited fs call of saveMigrationFiles rejects
SaveStepFails ==
    /\ pc \in {"ensureDir", "writeJson", "writeUp", "writeDown"}
    /\ pc' = "returned"
    /\ returned' = returned

\* the last call of generateMigration has failed and no new call has begun
AfterFailedSave == ret = Thrown /\ pc \in {"returned", "idle"}

\* C22: when a write of saveMigrationFiles fails, generateMigration rejects
\* instead of returning a Migration, and a later getMigrations does not
\* report the directory the failed call leaves behind: an entry under the id
\* of the failed migration is a migration that an earlier call has saved.
C22_FailedSaveNotReported ==
    [][/\ SaveStepFails => ret' = Thrown
       /\ (AfterFailedSave /\ ReaderReturns) =>
              \A i \in DOMAIN Listed' :
                  Listed'[i].id = migration.id => Listed'[i] \in Range(returned)]_vars

(***************************************************************************)
(* Results and errors of the manager (checked under SpecCli and SpecWatch)   *)
(***************************************************************************)
\* execution r of handleSchemaChangeFromCli ends in its catch block: the
\* schema could not be read or a file of the migration could not be written
CliRunFails(r) ==
    /\ runs[r].kind = "cli"
    /\ runs[r].pc \in InFlight
    /\ runs'[r].pc = "failed"

\* execution r of handleSchemaChangeFromCli ends because the diff is empty
CliRunFindsNoChanges(r) ==
    /\ runs[r].kind = "cli"
    /\ runs[r].pc = "parse"
    /\ runs'[r].pc = "done"

\* C23: the caller of handleSchemaChangeFromCli can tell "no changes" from an
\* error: with no changes it gets null, and what it gets when the schema
\* cannot be parsed or the migration cannot be written is never null.
C23_NoChangesIsNotAnError ==
    [][\A r \in DOMAIN runs :
            /\ CliRunFindsNoChanges(r) => answer' = Null
            /\ CliRunFails(r) => answer' # Null]_vars

\* an operation of the manager is called while the schema file cannot be read
\* and hands its outcome to the caller
CalledOnUnreadableSchema ==
    /\ pc = "ready"
    /\ schemaFile = Unreadable
    /\ answer' # answer

\* C24: when the schema file cannot be read, the operations that read it end
\* in an error: initialize without a cache rejects, and checkForChanges never
\* resolves to a boolean.
C24_UnreadableSchemaSurfaces ==
    [][CalledOnUnreadableSchema =>
            /\ (previousSchema = Null /\ schemaCachePath \notin DOMAIN fs.files) =>
                    answer' = Thrown
            /\ answer' \notin {Answer(TRUE), Answer(FALSE)}]_vars

(***************************************************************************)
(* Specification SpecParse: parseSchema applied to schema texts, twice       *)
(***************************************************************************)
MaxLines == 2

MaxBlocks == 2

\* the lines of a model block: the lines of Piece and the blank line
LinePool ==
    {Piece.comment, Piece.id, Piece.bio, Piece.ageOpt, Piece.posts, Piece.orphan, Piece.data,
     <<>>}

\* the schema texts: a model block with any lines of the pool, or a generator
\* block, before, between or behind blocks of a fixed text
ParseTexts ==
    LET varied == {Block("model", n, ls) :
                       n \in ModelNames, ls \in SeqsUpTo(LinePool, MaxLines)}
                      \cup {Piece.generator}
        fixed == SeqsUpTo({Block("model", "User", <<Piece.id>>),
                           Block("model", "Post", <<Piece.id, Piece.bio>>),
                           Piece.generator}, MaxBlocks - 1)
        around == {p \in fixed \X fixed : Len(p[1]) + Len(p[2]) <= MaxBlocks - 1}
    IN  {<<>>} \cup {p[1] \o <<b>> \o p[2] : b \in varied, p \in around}

InitParse ==
    /\ pc = "start"
    /\ oldSchema = <<>>
    /\ newSchema = <<>>
    /\ changes = <<>>
    /\ upStatements = <<>>
    /\ downStatements = <<>>
    /\ upSql = <<>>
    /\ downSql = <<>>
    /\ GenIdle
    /\ ListIdle
    /\ backup = Unreadable
    /\ schemaFile \in {Unreadable} \cup {SchemaFile(text) : text \in ParseTexts}
    /\ previousSchema = Null
    /\ isInitialized = FALSE
    /\ watcher = Null
    /\ watchers = {}
    /\ pending = {}
    /\ runs = <<>>
    /\ answer = NoResult

\* await parseSchema(schemaPath): fs.readFile rejects or the text is parsed;
\* the caller calls a second time on the same file
ParseSchema ==
    /\ pc \in {"start", "parsed"}
    /\ answer' = IF schemaFile = Unreadable THEN Thrown ELSE parseSchema(schemaFile)
    /\ pc' = IF pc = "start" THEN "parsed" ELSE "parsedAgain"
    /\ UNCHANGED <<outsideManager, fs, clock, returned, schemaFile, previousSchema,
                   isInitialized, watcher, watchers, pending, runs>>

NextParse == ParseSchema

SpecParse == InitParse /\ [][NextParse]_vars

\* parseSchema has returned a ParsedSchema
Parsed == pc # "start" /\ answer # Thrown

\* C25: the ParsedSchema parseSchema returns has pairwise distinct model
\* names and, within each model, pairwise distinct field names, whatever the
\* text declares.
C25_ParsedNamesUnique ==
    Parsed => UniqueModelNames(answer.models) /\ UniqueFieldNames(answer.models)

\* the models follow the order of the model blocks of the text and the fields
\* of each model the order of the lines of its block
OrderPreserved ==
    LET text == schemaFile.content
        blocks == {b \in DOMAIN text : text[b].keyword = "model"}
        models == answer.models
    IN  /\ Len(models) = Cardinality(blocks)
        /\ \E g \in [DOMAIN models -> blocks] :
               /\ \A i, j \in DOMAIN models : i < j => g[i] < g[j]
               /\ \A i \in DOMAIN models :
                      /\ models[i].name = text[g[i]].name
                      /\ \E f \in [DOMAIN models[i].fields -> DOMAIN text[g[i]].lines] :
                             /\ \A k, l \in DOMAIN f : k < l => f[k] < f[l]
                             /\ \A k \in DOMAIN f :
                                    /\ text[g[i]].lines[f[k]] # <<>>
                                    /\ text[g[i]].lines[f[k]][1] = models[i].fields[k].name

\* C26: parseSchema is deterministic and keeps the order of the source: the
\* second parse of a text returns what the first returned, the models stand
\* in the order of their blocks and the fields of each model in the order of
\* their lines.
C26_ParseKeepsSourceOrder ==
    [][(pc' # pc /\ answer' # Thrown) =>
            /\ OrderPreserved'
            /\ pc = "parsed" => answer' = answer]_vars

\* a text whose models and fields are not in alphabetical order has been
\* parsed twice: User stands before Post and id before bio
C26_Witness ==
    /\ pc = "parsedAgain"
    /\ answer # Thrown
    /\ Names(answer.models) = <<"User", "Post">>
    /\ Names(answer.models[1].fields) = <<"id", "bio">>

\* the names of the fields the lines of a model block stand for: the first
\* token of every line that is not blank, is not a full-line comment and has
\* a name token and a type token
FieldLineNames(lines) ==
    LET IsFieldLine(line) == line # <<>> /\ line[1] # "//" /\ Len(line) >= 2
    IN  Names([i \in DOMAIN SelectSeq(lines, IsFieldLine) |->
                  [name |-> SelectSeq(lines, IsFieldLine)[i][1]]])

\* C27: parseSchema returns one model for each model block of the text and
\* none for any other block, and in each model exactly one field for each
\* line of the block that is a field line, in the order of the lines; no
\* line makes the call fail or keeps the lines and blocks behind it from
\* being parsed.
C27_OneFieldPerFieldLine ==
    Parsed =>
        LET IsModelBlock(block) == block.keyword = "model"
            blocks == SelectSeq(schemaFile.content, IsModelBlock)
        IN  /\ Names(answer.models) = Names(blocks)
            /\ \A k \in DOMAIN blocks :
                   Names(answer.models[k].fields) = FieldLineNames(blocks[k].lines)

(***************************************************************************)
(* The baseline, the cache and the migrations on disk (checked under SpecCli *)
(* and SpecWatch)                                                            *)
(***************************************************************************)
\* the migrations getMigrations finds complete on the disk
CompleteMigrations(disk) == {Pushed(FilesOf(disk, entry))[1] : entry \in CompleteDirs(disk)}

\* the content of .schema-cache.json, null without the file
CachedSchema(disk) ==
    IF schemaCachePath \in DOMAIN disk.files THEN disk.files[schemaCachePath] ELSE Null

\* execution r of handleSchemaChangeFromCli returns null
CliRunReturnsNull(r) ==
    /\ runs[r].kind = "cli"
    /\ runs[r].pc \in InFlight
    /\ runs'[r].pc \in {"done", "failed"}
    /\ answer' = Null

\* a step of execution r of handleSchemaChangeFromCli changes the baseline or
\* the cache
CliRunAdvances(r) ==
    /\ runs[r].kind = "cli"
    /\ runs'[r] # runs[r]
    /\ runs'[r].pc # "killed"
    /\ previousSchema' # previousSchema \/ CachedSchema(fs') # CachedSchema(fs)

\* C28: handleSchemaChangeFromCli moves previousSchema and the cache on only
\* behind a saved migration, which it then returns; when it returns null (no
\* changes, schema unreadable, migration files not writable) previousSchema,
\* the cache and the complete migrations on disk are as they were, so the
\* next run finds the same changes.
C28_NullLeavesBaseline ==
    [][\A r \in DOMAIN runs :
            /\ CliRunReturnsNull(r) =>
                    /\ previousSchema' = previousSchema
                    /\ CachedSchema(fs') = CachedSchema(fs)
                    /\ CompleteMigrations(fs') = CompleteMigrations(fs)
            /\ CliRunAdvances(r) =>
                    /\ runs[r].pc \in {"writeDown", "saveCache"}
                    /\ IsMigration(runs[r].migration)
                    /\ runs'[r].pc = "done" => answer' = runs[r].migration]_vars

\* execution r has diffed the schema file against the baseline, has found
\* changes and is saving their migration; the baseline is not yet moved on
SavesChanges(r) == runs[r].pc \in {"ensureDir", "writeJson", "writeUp", "writeDown"}

\* C29: two executions of handleSchemaChange started by two notifications of
\* one edit never put the changes of the edit into two migrations: no
\* execution finds the changes another execution is saving, since the
\* second does not diff against the baseline the first has used.
C29_OneMigrationPerEdit ==
    \A r, q \in DOMAIN runs :
        (r # q /\ SavesChanges(r) /\ SavesChanges(q)) => runs[r].changes # runs[q].changes

\* a write of .schema-cache.json succeeds and leaves no operation of the
\* initialized manager in flight
CacheWrittenAtRest ==
    /\ CachedSchema(fs') # CachedSchema(fs)
    /\ isInitialized'
    /\ RunsInFlight' = {}

\* C30: cache coherence.  Whenever a write of the cache has succeeded and no
\* operation of the initialized manager is in flight, the schema stored in
\* .schema-cache.json is the previousSchema in memory.
C30_CacheCoherence ==
    [][CacheWrittenAtRest => CachedSchema(fs') = CacheData(previousSchema')]_vars

(***************************************************************************)
(* checkForChanges and the commands of the command line                      *)
(***************************************************************************)
\* checkForChanges resolves to a boolean on an initialized manager
CheckReturns ==
    /\ pc = "ready"
    /\ pc' = "ready"
    /\ isInitialized
    /\ schemaFile' = schemaFile
    /\ clock' = clock
    /\ answer' \in {Answer(TRUE), Answer(FALSE)}

\* C31: checkForChanges on an initialized manager is read-only: it leaves
\* previousSchema, the schema cache and the migrations directory as they
\* are, and its answer is a function of the baseline and the schema file
\* alone, so a second call on the same file answers the same and a later
\* handleSchemaChangeFromCli finds the same changes.
C31_CheckIsReadOnly ==
    [][CheckReturns =>
            /\ previousSchema' = previousSchema
            /\ fs' = fs
            /\ runs' = runs
            /\ schemaFile # Unreadable => answer' = Answer(Len(BaselineDiff) > 0)]_vars

\* checkForChanges has answered true on an initialized manager whose cache is
\* on disk, and the changes it has seen are still there to be migrated
C31_Witness ==
    /\ pc = "ready"
    /\ isInitialized
    /\ answer = Answer(TRUE)
    /\ schemaFile # Unreadable
    /\ Len(BaselineDiff) > 0
    /\ CachedSchema(fs) = CacheData(previousSchema)

\* the `init` command: manager.initialize() of a new manager resolves
InitCommandCompletes ==
    /\ pc = "ready"
    /\ ~isInitialized
    /\ previousSchema = Null
    /\ isInitialized'
    /\ answer' = Undefined
    /\ schemaFile # Unreadable

\* C32: when the `init` command completes, the baseline is the schema file
\* as it is now: previousSchema is the parsed file and the schema cache, if
\* there is one, holds the parsed file, whether or not the migrations
\* directory held a cache before.
C32_InitTakesCurrentSchema ==
    [][InitCommandCompletes =>
            /\ previousSchema' = parseSchema(schemaFile)
            /\ CachedSchema(fs') \in {Null, CacheData(parseSchema(schemaFile))}]_vars

(***************************************************************************)
(* index.ts main: the commands create and apply                              *)
(***************************************************************************)
\* the command create after its await of manager.initialize(): the schema
\* file is parsed and its text is written to prisma/.schema.prisma.backup; a
\* schema file that cannot be read rejects and no backup is written
CreateBackup ==
    /\ pc = "ready"
    /\ isInitialized
    /\ schemaFile # Unreadable
    /\ backup' = schemaFile
    /\ UNCHANGED <<pc, diffVars, changes, sqlVars, genVars, mgrVars, listVars>>

\* the command apply up to the first await of generateMigration: without a
\* backup, with a schema file that cannot be read and without changes the
\* process ends and has changed nothing; the manager that main constructs is
\* not used
Apply(name) ==
    /\ pc = "none"
    /\ calls < MaxCalls
    /\ backup # Unreadable
    /\ schemaFile # Unreadable
    /\ LET old == parseSchema(backup)
           new == parseSchema(schemaFile)
           cs == compareSchemas(old.models, new.models)
           manualMigrationName == IF name = NoName THEN <<"manual_migration">> ELSE name
       IN  /\ Len(cs) > 0
           /\ oldSchema' = old.models
           /\ newSchema' = new.models
           /\ changes' = cs
           /\ migrationName' = manualMigrationName
           /\ upStatements' = UpStatements(cs)
           /\ downStatements' = DownStatements(cs)
           /\ upSql' = JoinStatements(upStatements')
           /\ downSql' = JoinStatements(downStatements')
           /\ migration' = NewMigration(cs, manualMigrationName, clock)
    /\ calls' = calls + 1
    /\ pc' = "ensureDir"
    /\ UNCHANGED <<ret, fs, clock, returned, mgrVars, listVars, backup>>

\* the command apply after generateMigration: the backup is removed when a
\* migration was returned; a rejection ends the process and leaves the backup
ApplyEnds ==
    /\ pc = "returned"
    /\ backup' = IF IsMigration(ret) THEN Unreadable ELSE backup
    /\ pc' = "none"
    /\ UNCHANGED <<diffVars, changes, sqlVars, genVars, mgrVars, listVars>>

(***************************************************************************)
(* Specification SpecCommands: the commands create, apply and generate, one  *)
(* process after the other and without a name for the migration, while the  *)
(* schema file is edited and every write to the disk succeeds                *)
(***************************************************************************)
NextCommands ==
    \/ Construct
    \/ Exit
    \/ Initialize(TRUE)
    \/ CreateBackup
    \/ Apply(NoName)
    \/ EnsureDir
    \/ WriteJson
    \/ WriteUp
    \/ WriteDown
    \/ ApplyEnds
    \/ HandleSchemaChangeFromCli(NoName, TRUE)
    \/ \E text \in CliTexts : EditSchema(text)
    \/ \E r \in DOMAIN runs : RunParse(r)
    \/ \E r \in DOMAIN runs : RunSave(r)
    \/ \E r \in DOMAIN runs : RunSaveCache(r, TRUE)
    \/ Tick

SpecCommands == InitCli /\ [][NextCommands]_vars

\* the command apply ends after generateMigration has returned a migration
ApplyCompletes ==
    /\ pc = "returned"
    /\ IsMigration(ret)
    /\ pc' = "none"

\* C33: when the command apply has generated a migration for an edit, a
\* manager constructed afterwards on the unmodified schema file finds no
\* changes: the baseline it loads from the schema cache, if there is a
\* cache, does not differ from the schema that apply has migrated to.
C33_AppliedEditIsNotMigratedAgain ==
    [][ApplyCompletes =>
            LET baseline == loadCachedSchema(Null, fs')
            IN  baseline # Null => compareSchemas(baseline.models, newSchema) = <<>>]_vars

(***************************************************************************)
(* watch and stop called in any order (checked under SpecWatch)              *)
(***************************************************************************)
\* a change notification starts an execution of handleSchemaChange
NotificationStartsRun ==
    /\ Len(runs') = Len(runs) + 1
    /\ runs'[Len(runs')].kind = "watch"

\* C34: when stop() returns, no watcher of the manager is open and no
\* notification is left to be delivered, whatever calls of watch() and stop()
\* came before, and a notification starts an execution only while the manager
\* holds a watcher.
C34_StopClosesEveryWatcher ==
    [][/\ StopReturns => (watchers' = {} /\ pending' = {})
       /\ NotificationStartsRun => watcher # Null]_vars

(***************************************************************************)
(* The SQL type of an optional field, from the schema text to the statement  *)
(* (checked under SpecParse)                                                 *)
(***************************************************************************)
\* statement s gives the column the SQL type: `name sqlType` in CREATE TABLE
\* and ADD COLUMN, `name TYPE sqlType` in ALTER COLUMN
ColumnTyped(s, name, sqlType) ==
    \E k \in 1..(Len(s) - 1) :
        /\ s[k] = name
        /\ \/ s[k + 1] = sqlType
           \/ k + 2 <= Len(s) /\ s[k + 1] = "TYPE" /\ s[k + 2] = sqlType

\* the schemas before the change that creates the table of model m, adds the
\* column of field f and alters the type of that column
SchemasBefore(m, f) ==
    { <<>>,
      << [m EXCEPT !.fields = SelectSeq(m.fields, LAMBDA g : g.name # f.name)] >>,
      << [m EXCEPT !.fields = [j \in DOMAIN m.fields |->
                                  IF m.fields[j].name = f.name
                                      THEN [m.fields[j] EXCEPT !.type = Type.string]
                                      ELSE m.fields[j]]] >> }

\* C35: a field that the schema text declares as `Int?` gets the SQL type
\* INTEGER: in the CREATE TABLE statement of its model, in the ADD COLUMN
\* statement generated when the field is new and in the ALTER COLUMN
\* statement generated when its type has changed, every statement that
\* parse, diff and generate produce for it gives the column the type INTEGER.
C35_OptionalIntIsInteger ==
    Parsed =>
        \A n \in DOMAIN answer.models :
            LET m == answer.models[n]
            IN  \A i \in {j \in DOMAIN m.fields : m.fields[j].type = Type.intOpt} :
                    \A old \in SchemasBefore(m, m.fields[i]) :
                        LET up == UpStatements(compareSchemas(old, <<m>>))
                        IN  /\ up # <<>>
                            /\ \A k \in DOMAIN up :
                                   ColumnTyped(up[k], m.fields[i].name, "INTEGER")

(***************************************************************************)
(* compareSchemas and the order of declaration (checked under SpecDiff)      *)
(***************************************************************************)
\* the orders in which the elements of a sequence can be arranged
Orders(seq) ==
    {p \in [DOMAIN seq -> DOMAIN seq] : \A i, j \in DOMAIN seq : p[i] = p[j] => i = j}

\* model b is model a with its fields in some order
FieldsReordered(a, b) ==
    /\ b.name = a.name
    /\ Len(b.fields) = Len(a.fields)
    /\ \E q \in Orders(a.fields) : \A j \in DOMAIN a.fields : b.fields[j] = a.fields[q[j]]

\* schema new is schema old with its models, and the fields inside the
\* models, in some order
Reordered(old, new) ==
    /\ Len(new) = Len(old)
    /\ \E p \in Orders(old) : \A i \in DOMAIN old : FieldsReordered(old[p[i]], new[i])

\* C36: when the new schema is the old schema with its models or the fields
\* inside its models in another order, compareSchemas returns no change.
C36_OrderIsIgnored ==
    (pc = "done" /\ Reordered(oldSchema, newSchema)) => changes = <<>>

====
